---- MODULE Spec2Model ----
(***************************************************************************)
(* A model of scikit-fda's basis representation (FDataBasis) and of the    *)
(* neighbors estimators' base classes (fit / query / predict / score).     *)
(*                                                                         *)
(* The module holds these state machines over one set of variables:        *)
(*   SpecFD       FDataBasis instances and their operations                *)
(*   SpecShift    FDataBasis.shift                                         *)
(*   SpecNB       an estimator's fit / query / predict life cycle          *)
(*   SpecPredict  the functional-response prediction of a fitted regressor *)
(*   SpecScore    the functional R^2 score                                 *)
(* Each specification leaves the variables of the others untouched.        *)
(***************************************************************************)
EXTENDS Integers, Sequences, FiniteSets, TLC

VARIABLES
    fd,       \* SpecFD: the receiver of the last FDataBasis call
    fdRes,    \* SpecFD: what the last FDataBasis call produced
    est,      \* SpecNB: the estimator's attributes
    nbLast,   \* SpecNB: the last call on the estimator and what it did
    nbHist,   \* SpecNB: the most recent fit calls (what the claims speak of)
    avLast,   \* SpecAverage: the last aggregation of one neighborhood
    prCfg,    \* SpecPredict: the fitted regressor (weights, fallback, _y)
    prLast,   \* SpecPredict: the last predict call and its outcome
    scLast,   \* SpecScore: the last score call and its outcome
    sh,       \* SpecShift: the receiver of the shift calls
    shLast,   \* SpecShift: the last shift call and what it did
    shPrev    \* SpecShift: the shift call before the last

vars == <<fd, fdRes, est, nbLast, nbHist, avLast, prCfg, prLast, scLast,
          sh, shLast, shPrev>>

fdVars == <<fd, fdRes>>
nbVars == <<est, nbLast, nbHist>>
prVars == <<avLast, prCfg, prLast>>
scVars == <<scLast>>
shVars == <<sh, shLast, shPrev>>

-----------------------------------------------------------------------------
(* Bounds of the model *)

\* the largest number of basis functions of a basis
MaxBasis == 2
\* the largest number of samples (rows) of an argument
MaxSamples == 2

\* the data sets (training or query data, responses) a run tells apart
DataIds == {1, 2}

\* the largest number of neighbors of one query sample
MaxNeighbors == 3
\* the largest number of samples of one query
MaxQueries == 2
\* the distances between a query sample and a neighbor
DistanceVals == {0, 1, 5}

\* the values the first coefficient of an input row takes
CoefVals == {0, 1}

-----------------------------------------------------------------------------
(* Floating point values.  A float is modelled by an exact fraction        *)
(* <<p, q>> in lowest terms with q > 0; q = 0 holds what a float division  *)
(* by zero yields (numpy warns and does not raise): <<0, 0>> is NaN,       *)
(* <<1, 0>> is +inf and <<-1, 0>> is -inf.                                 *)

Abs(n) == IF n < 0 THEN -n ELSE n

Sgn(n) == IF n < 0 THEN -1 ELSE IF n = 0 THEN 0 ELSE 1

RECURSIVE GCD(_, _)
GCD(a, b) == IF b = 0 THEN a ELSE GCD(b, a % b)

RNorm(p, q) ==
    IF q = 0 THEN <<Sgn(p), 0>>
    ELSE LET g == GCD(Abs(p), Abs(q))
         IN  <<(Sgn(q) * p) \div g, Abs(q) \div g>>

R(n) == <<n, 1>>

NaN == <<0, 0>>

IsFinite(a) == a[2] # 0

RAdd(a, b) ==
    IF a[2] = 0 /\ b[2] = 0
    THEN (IF a = b THEN a ELSE NaN)
    ELSE RNorm(a[1] * b[2] + b[1] * a[2], a[2] * b[2])

RNeg(a) == <<-a[1], a[2]>>

RSub(a, b) == RAdd(a, RNeg(b))

RMul(a, b) == RNorm(a[1] * b[1], a[2] * b[2])

RDiv(a, b) == RMul(a, RNorm(b[2], b[1]))

RECURSIVE RSum(_)
RSum(s) == IF s = <<>> THEN R(0) ELSE RAdd(s[1], RSum(Tail(s)))

\* all sequences over S of a length in lens
SeqsOf(S, lens) == UNION {[1..n -> S] : n \in lens}

-----------------------------------------------------------------------------
(* numpy arrays.  An array is [shape, data, base]: a 0-d array holds one    *)
(* float, a 1-d array a sequence of floats, a 2-d array a sequence of rows. *)
(* base tells whose memory the rows are: row i of a view of the receiver's  *)
(* coefficient matrix is the receiver's row base[i], row i of a view of the *)
(* a-th functional argument's matrix is base[i] = a * Stride + that row; an *)
(* array with memory of its own has base <<>>.                              *)

\* an input row of n numbers starting at v: v, 1 - v, v, ...
Row(v, n) == [k \in 1..n |-> R((v + k - 1) % 2)]

Arr0 == {[shape |-> <<>>, data |-> R(v), base |-> <<>>] : v \in CoefVals}

Arr1 == {[shape |-> <<n>>, data |-> Row(v, n), base |-> <<>>] :
           v \in CoefVals, n \in 1..MaxBasis}

\* input matrices: row i starts at v + i - 1
Arr2 == {[shape |-> <<m, n>>, data |-> [i \in 1..m |-> Row(v + i - 1, n)],
          base |-> <<>>] : v \in CoefVals, m \in 1..MaxSamples, n \in 1..MaxBasis}

\* the argument None
NoneArr == [shape |-> <<-1>>, data |-> <<>>, base |-> <<>>]

IsNone(a) == a.shape = <<-1>>

ndim(a) == Len(a.shape)

atleast_2d(a) ==
    CASE ndim(a) = 0 -> [shape |-> <<1, 1>>, data |-> << <<a.data>> >>, base |-> <<>>]
      [] ndim(a) = 1 -> [shape |-> <<1, a.shape[1]>>, data |-> <<a.data>>, base |-> <<>>]
      [] OTHER -> a

\* a[lo:hi] on the rows of a 2-d array (0-based, clipped as numpy does): a view
RowSlice(a, lo, hi) ==
    LET n    == a.shape[1]
        top  == IF hi < n THEN hi ELSE n
        m    == IF top > lo THEN top - lo ELSE 0
    IN  [shape |-> <<m, a.shape[2]>>,
         data  |-> [i \in 1..m |-> a.data[lo + i]],
         base  |-> IF a.base = <<>> THEN <<>> ELSE [i \in 1..m |-> a.base[lo + i]]]

\* a[idx] with an integer array idx (0-based, in range): a copy
RowTake(a, idx) ==
    [shape |-> <<Len(idx), a.shape[2]>>,
     data  |-> [i \in 1..Len(idx) |-> a.data[idx[i] + 1]],
     base  |-> <<>>]

Column(a, k) == [i \in 1..a.shape[1] |-> a.data[i][k]]

-----------------------------------------------------------------------------
(* FDataBasis.  An instance is [live, id, basis, coefficients,              *)
(* sample_names]; id tells which object it is for the call at hand: "self"  *)
(* the receiver, "other" a functional argument, "new" an object the call    *)
(* constructed.  A sample name is <<word, number>>.                         *)

\* the bases of the instances: of functions of one variable with one coordinate
Bases == {[n_basis |-> k, dim_domain |-> 1, dim_codomain |-> 1] : k \in 1..MaxBasis}

\* the argument sample_names=None
NoNames == << <<"unset", 0>> >>

\* the names a caller gives to n samples
Named(n) == [i \in 1..n |-> <<"sample", i>>]

\* FData.__init__ on sample_names: a name per sample, None where none is given
FData_sample_names(sample_names, n) ==
    IF sample_names = NoNames THEN [i \in 1..n |-> <<"None", 0>>] ELSE sample_names

\* names[lo:hi] and np.array(names)[idx] (0-based)
NameSlice(names, lo, hi) ==
    LET top == IF hi < Len(names) THEN hi ELSE Len(names)
        m   == IF top > lo THEN top - lo ELSE 0
    IN  [i \in 1..m |-> names[lo + i]]

NameTake(names, idx) == [i \in 1..Len(idx) |-> names[idx[i] + 1]]

NoFD == [live |-> FALSE, id |-> "none", basis |-> [n_basis |-> 0],
         sample_names |-> <<>>,
         coefficients |-> [shape |-> <<0, 0>>, data |-> <<>>, base |-> <<>>]]

Raised(e) == [outcome |-> e, obj |-> NoFD]

n_samples(self) == self.coefficients.shape[1]

\* (mutant) a constructor that does not compare the column count with n_basis
FDataBasis_unchecked(basis, coefficients, sample_names) ==
    LET c == atleast_2d(coefficients)
    IN  IF sample_names # NoNames /\ Len(sample_names) # c.shape[1]
        THEN Raised("ValueError")
        ELSE [outcome |-> "instance",
              obj |-> [live |-> TRUE, id |-> "new", basis |-> basis,
                       coefficients |-> c,
                       sample_names |-> FData_sample_names(sample_names, c.shape[1])]]

\* FDataBasis.__init__: _int_to_real leaves a float array as it is; the names
\* go to FData.__init__, which wants one per sample
FDataBasis(basis, coefficients, sample_names) ==
    LET c == atleast_2d(coefficients)
    IN  IF c.shape[2] # basis.n_basis
        THEN Raised("ValueError")
        ELSE IF sample_names # NoNames /\ Len(sample_names) # c.shape[1]
        THEN Raised("ValueError")
        ELSE [outcome |-> "instance",
              obj |-> [live |-> TRUE, id |-> "new", basis |-> basis,
                       coefficients |-> c,
                       sample_names |-> FData_sample_names(sample_names, c.shape[1])]]

\* FDataBasis.copy: basis is deep-copied, coefficients and sample names default
\* to the receiver's
copy(self, coefficients, sample_names) ==
    FDataBasis(self.basis,
               IF IsNone(coefficients) THEN self.coefficients ELSE coefficients,
               IF sample_names = NoNames THEN self.sample_names ELSE sample_names)

\* FDataBasis.__getitem__
getitem(self, key) ==
    LET n == n_samples(self)
    IN  CASE key.kind = "int" ->
               IF key.k < 0 /\ key.k + n < 0
               THEN Raised("IndexError")
               ELSE LET k == IF key.k < 0 THEN key.k + n ELSE key.k
                    IN  copy(self, RowSlice(self.coefficients, k, k + 1),
                             NameSlice(self.sample_names, k, k + 1))
          [] key.kind = "slice" ->
               copy(self, RowSlice(self.coefficients, key.lo, key.hi),
                    NameSlice(self.sample_names, key.lo, key.hi))
          [] OTHER ->
               IF \E i \in 1..Len(key.idx) : key.idx[i] >= n
               THEN Raised("IndexError")
               ELSE copy(self, RowTake(self.coefficients, key.idx),
                         NameTake(self.sample_names, key.idx))

\* np.mean(a, axis=0) of a 2-d array: a 1-d array
np_mean0(a) ==
    [shape |-> <<a.shape[2]>>,
     data  |-> [k \in 1..a.shape[2] |-> RDiv(RSum(Column(a, k)), R(a.shape[1]))],
     base  |-> <<>>]

WSum(w) == RSum([i \in 1..Len(w) |-> R(w[i])])

\* np.average(a, weights=w, axis=0)[np.newaxis, ...]: a 1 x K array
np_average0(a, w) ==
    [shape |-> <<1, a.shape[2]>>,
     data  |-> << [k \in 1..a.shape[2] |->
                     RDiv(RSum([i \in 1..a.shape[1] |-> RMul(R(w[i]), a.data[i][k])]),
                          WSum(w))] >>,
     base  |-> <<>>]

\* (mutant) a mean that leaves the weights aside
mean_unweighted(self, weights) ==
    copy(self, np_mean0(self.coefficients), << <<"mean", 0>> >>)

\* FDataBasis.mean; weights is [given, w]
mean(self, weights) ==
    IF weights.given
    THEN IF Len(weights.w) # n_samples(self) THEN Raised("ValueError")
         ELSE IF WSum(weights.w) = R(0) THEN Raised("ZeroDivisionError")
         ELSE copy(self, np_average0(self.coefficients, weights.w), << <<"mean", 0>> >>)
    ELSE copy(self, np_mean0(self.coefficients), << <<"mean", 0>> >>)

RECURSIVE Flatten(_)
Flatten(ss) == IF ss = <<>> THEN <<>> ELSE ss[1] \o Flatten(Tail(ss))

\* np.concatenate(data, axis=0) of 2-d arrays of one width
np_concatenate0(arrs) ==
    LET rows == Flatten([i \in 1..Len(arrs) |-> arrs[i].data])
    IN  [shape |-> <<Len(rows), arrs[1].shape[2]>>, data |-> rows, base |-> <<>>]

\* (mutant) concatenate that puts the receiver's samples last
concatenate_self_last(self, others, as_coordinates) ==
    IF as_coordinates THEN [outcome |-> "NotImplemented", obj |-> NoFD]
    ELSE IF \E i \in 1..Len(others) : others[i].basis # self.basis
    THEN Raised("ValueError")
    ELSE copy(self,
              np_concatenate0([i \in 1..Len(others) |-> others[i].coefficients]
                              \o <<self.coefficients>>),
              Flatten([i \in 1..Len(others) |-> others[i].sample_names]
                      \o <<self.sample_names>>))

\* FDataBasis.concatenate
concatenate(self, others, as_coordinates) ==
    IF as_coordinates THEN [outcome |-> "NotImplemented", obj |-> NoFD]
    ELSE IF \E i \in 1..Len(others) : others[i].basis # self.basis
    THEN Raised("ValueError")
    ELSE copy(self,
              np_concatenate0(<<self.coefficients>> \o
                        [i \in 1..Len(others) |-> others[i].coefficients]),
              Flatten(<<self.sample_names>> \o
                        [i \in 1..Len(others) |-> others[i].sample_names]))

\* (mutant) times that scales the receiver's matrix where it is and returns a
\* copy() of the receiver
times_in_place(self, other) ==
    LET n     == n_samples(self)
        lst   == IF other.kind = "int" THEN [i \in 1..n |-> other.v[1]] ELSE other.v
        m     == Len(lst)
    IN  IF m # n /\ m # 1
        THEN Raised("ValueError")
        ELSE copy(self,
               [shape |-> self.coefficients.shape,
                data  |-> [i \in 1..n |->
                             [k \in 1..self.coefficients.shape[2] |->
                                RMul(self.coefficients.data[i][k],
                                     R(lst[IF m = 1 THEN 1 ELSE i]))]],
                base  |-> self.coefficients.base],
               NoNames)

\* FDataBasis.times with an int or a list of numbers (one per sample)
times(self, other) ==
    LET n     == n_samples(self)
        lst   == IF other.kind = "int" THEN [i \in 1..n |-> other.v[1]] ELSE other.v
        m     == Len(lst)
        rows  == IF n = 1 THEN m ELSE n
    IN  IF m # n /\ m # 1 /\ n # 1
        THEN Raised("ValueError")
        ELSE copy(self,
               [shape |-> <<rows, self.coefficients.shape[2]>>,
                data  |-> [i \in 1..rows |->
                             [k \in 1..self.coefficients.shape[2] |->
                                RMul(self.coefficients.data[IF n = 1 THEN 1 ELSE i][k],
                                     R(lst[IF m = 1 THEN 1 ELSE i]))]],
                base  |-> <<>>],
               NoNames)

\* FDataBasis.derivative; rule is what basis._derivative_basis_and_coefs returns
\* order is a float <<p, q>>, so order < 0 is p < 0; any other order that is
\* not 0 goes to the rule, and what the rule raises leaves derivative as it is
derivative(self, order, rule) ==
    IF order[1] < 0 THEN [outcome |-> "ValueError", obj |-> NoFD, called |-> "none"]
    ELSE IF order = R(0)
    THEN LET r == copy(self, NoneArr, NoNames)
         IN  [outcome |-> r.outcome, obj |-> r.obj, called |-> "none"]
    ELSE IF rule.outcome # "ok"
    THEN [outcome |-> rule.outcome, obj |-> NoFD, called |-> "derivative_basis_and_coefs"]
    ELSE LET r == FDataBasis(rule.basis, rule.coefficients, NoNames)
         IN  [outcome |-> r.outcome, obj |-> r.obj, called |-> "derivative_basis_and_coefs"]

\* np.all(a == b, axis=1) on matrices of one shape
RowsEqual(a, b) ==
    [i \in 1..a.shape[1] |-> \A k \in 1..a.shape[2] : a.data[i][k] = b.data[i][k]]

\* (mutant) __eq__ that compares the lengths before the types
eq_length_first(self, other) ==
    IF other.live /\ n_samples(self) # n_samples(other)
    THEN [outcome |-> "ValueError", obj |-> NoFD, value |-> <<>>]
    ELSE IF ~other.live \/ self.basis # other.basis
    THEN [outcome |-> "TypeError", obj |-> NoFD, value |-> <<>>]
    ELSE [outcome |-> "array", obj |-> NoFD,
          value |-> RowsEqual(self.coefficients, other.coefficients)]

\* FDataBasis.__eq__; other is NoFD when it is no FDataBasis.  The dtypes are
\* equal when the bases are (FDataBasisDType.__eq__)
eq(self, other) ==
    IF ~other.live \/ self.basis # other.basis
    THEN [outcome |-> "TypeError", obj |-> NoFD, value |-> <<>>]
    ELSE IF n_samples(self) # n_samples(other)
    THEN [outcome |-> "ValueError", obj |-> NoFD, value |-> <<>>]
    ELSE [outcome |-> "array", obj |-> NoFD,
          value |-> RowsEqual(self.coefficients, other.coefficients)]

\* FDataBasis.dim_domain and dim_codomain
dim_domain(self) == self.basis.dim_domain

dim_codomain(self) == self.basis.dim_codomain

\* PhasePlanePlot.plot; fdata2 is NoFD for None.  `called` is what
\* concatenate handed back for fd_final
plot(fdata1, fdata2) ==
    LET joined   == concatenate(fdata1, <<fdata2>>, TRUE)
        fd_final == IF fdata2.live THEN joined
                    ELSE [outcome |-> "instance", obj |-> fdata1]
        called   == IF fdata2.live THEN joined.outcome ELSE "none"
    IN  IF fdata2.live
           /\ ~(/\ dim_domain(fdata1) = dim_domain(fdata2)
                /\ dim_codomain(fdata1) = dim_codomain(fdata2)
                /\ dim_domain(fdata1) = 1
                /\ dim_codomain(fdata1) = 1)
        THEN [outcome |-> "ValueError", obj |-> NoFD, called |-> "none"]
        ELSE IF fd_final.outcome = "NotImplemented"
        THEN \* NotImplemented has no attribute dim_domain
             [outcome |-> "AttributeError", obj |-> NoFD, called |-> called]
        ELSE IF fd_final.outcome # "instance"
        THEN [outcome |-> fd_final.outcome, obj |-> NoFD, called |-> called]
        ELSE IF dim_domain(fd_final.obj) = 1 /\ dim_codomain(fd_final.obj) = 2
        THEN [outcome |-> "figure", obj |-> NoFD, called |-> called]
        ELSE [outcome |-> "ValueError", obj |-> NoFD, called |-> called]

(* The operators.  A basis rule (_add_same_basis, _add_constant, ...) is    *)
(* code of the Basis classes: what it answers is [outcome, basis,           *)
(* coefficients], outcome "ok" or the exception it raises.  An operator's   *)
(* result tells in `called` which rule it called.                           *)

NoRule == [outcome |-> "none", basis |-> [n_basis |-> 0], coefficients |-> NoneArr]

RuleRaises(e) == [NoRule EXCEPT !.outcome = e]

\* the not-supported signal
NotSupported(called) == [outcome |-> "NotImplemented", obj |-> NoFD, called |-> called]

\* a + b, a - b and a * b of floats
Arith(op, a, b) ==
    CASE op = "add" -> RAdd(a, b)
      [] op = "sub" -> RSub(a, b)
      [] OTHER -> RMul(a, b)

\* numpy's c1 op c2 on matrices: an axis of length one is broadcast
Elementwise(basis, c1, c2, op) ==
    LET m1   == c1.shape[1]
        m2   == c2.shape[1]
        n1   == c1.shape[2]
        n2   == c2.shape[2]
        rows == IF m1 = 1 THEN m2 ELSE m1
        cols == IF n1 = 1 THEN n2 ELSE n1
    IN  IF (m1 # m2 /\ m1 # 1 /\ m2 # 1) \/ (n1 # n2 /\ n1 # 1 /\ n2 # 1)
        THEN RuleRaises("ValueError")
        ELSE [outcome |-> "ok", basis |-> basis,
              coefficients |->
                 [shape |-> <<rows, cols>>,
                  data  |-> [i \in 1..rows |->
                               [k \in 1..cols |->
                                  Arith(op,
                                    c1.data[IF m1 = 1 THEN 1 ELSE i][IF n1 = 1 THEN 1 ELSE k],
                                    c2.data[IF m2 = 1 THEN 1 ELSE i][IF n2 = 1 THEN 1 ELSE k])]],
                  base  |-> <<>>]]

\* Basis._add_same_basis and Basis._sub_same_basis
add_same_basis(basis, coefs1, coefs2) == Elementwise(basis, coefs1, coefs2, "add")

sub_same_basis(basis, coefs1, coefs2) == Elementwise(basis, coefs1, coefs2, "sub")

\* FData._copy_op: a copy of self, or of other when self is one sample and
\* other is several, with the basis and the coefficients of the rule
copy_op(self, other, rule, called) ==
    LET base_copy == IF other.live /\ n_samples(self) = 1 /\ n_samples(other) # 1
                     THEN other ELSE self
        r         == FDataBasis(rule.basis, rule.coefficients, base_copy.sample_names)
    IN  [outcome |-> r.outcome, obj |-> r.obj, called |-> called]

\* the rest of __add__, __sub__ and __mul__ once a rule has answered
after_rule(self, other, rule, called) ==
    IF rule.outcome = "ok"
    THEN copy_op(self, other, rule, called)
    ELSE [outcome |-> rule.outcome, obj |-> NoFD, called |-> called]

\* (mutant) __add__ that asks the same-basis rule whatever the bases are
add_any_basis(self, other, rule) ==
    IF other.live
    THEN after_rule(self, other, rule, "same_basis")
    ELSE IF rule.outcome = "TypeError" THEN NotSupported("constant")
    ELSE after_rule(self, other, rule, "constant")

\* FDataBasis.__add__; other is an instance or, when it is not functional,
\* NoFD; rule is what the basis rule answers if it is called
add(self, other, rule) ==
    IF other.live
    THEN IF self.basis # other.basis
         THEN NotSupported("none")
         ELSE after_rule(self, other, rule, "same_basis")
    ELSE IF rule.outcome = "TypeError" THEN NotSupported("constant")
    ELSE after_rule(self, other, rule, "constant")

\* FDataBasis.__sub__
sub(self, other, rule) ==
    IF other.live
    THEN IF self.basis # other.basis
         THEN NotSupported("none")
         ELSE after_rule(self, other, rule, "same_basis")
    ELSE IF rule.outcome = "TypeError" THEN NotSupported("constant")
    ELSE after_rule(self, other, rule, "constant")

(* A number operand is [kind, v]: a "scalar" (v of length one), a "list" of  *)
(* numbers or a "str", which is no number.                                  *)

\* np.atleast_2d(other).reshape(-1, 1): a column
AsColumn(number) ==
    [shape |-> <<Len(number.v), 1>>,
     data  |-> [i \in 1..Len(number.v) |-> <<number.v[i]>>],
     base  |-> <<>>]

\* Basis._mul_constant: the coefficients scaled row by row
mul_constant(basis, coefs, number) ==
    IF number.kind = "str" THEN RuleRaises("TypeError")
    ELSE Elementwise(basis, coefs, AsColumn(number), "mul")

\* FDataBasis.__mul__
mul(self, other, rule) ==
    IF other.live
    THEN NotSupported("none")
    ELSE IF rule.outcome = "TypeError" THEN NotSupported("constant")
    ELSE after_rule(self, other, rule, "constant")

\* 1 / np.array(other) of numbers: a division by zero warns and gives inf
Reciprocal(number) ==
    [number EXCEPT !.v = [i \in 1..Len(number.v) |-> RDiv(R(1), number.v[i])]]

\* (mutant) __truediv__ that multiplies by the divisor itself
truediv_by_product(self, other, number) ==
    IF other.live \/ number.kind = "str"
    THEN NotSupported("none")
    ELSE mul(self, NoFD, mul_constant(self.basis, self.coefficients, number))

\* FDataBasis.__truediv__: 1 / np.array(other) raises TypeError for a str and
\* for an instance, whose __rtruediv__ is what 1 / other comes to
truediv(self, other, number) ==
    IF other.live \/ number.kind = "str"
    THEN NotSupported("none")
    ELSE mul(self, NoFD, mul_constant(self.basis, self.coefficients, Reciprocal(number)))

\* FDataBasis.__rtruediv__
rtruediv(self, other, number) == NotSupported("none")

-----------------------------------------------------------------------------------------------------------------------------------------------------
(* SpecFD: a program holds an instance fd, makes one call on it and may     *)
(* then write into a coefficient matrix.  fdRes is the call: its receiver   *)
(* (self) and functional arguments (others) as they were passed, its other  *)
(* arguments, the functional arguments as they are after the call (after),  *)
(* what the call returned or raised (outcome, ret) and the returned         *)
(* instance as it is now (obj); fd is the receiver as it is now.  A         *)
(* constructor call has no receiver and leaves fd as it is.                 *)

IdleNB == [fitted |-> FALSE]
IdlePR == [fitted |-> FALSE]
IdleSC == [op |-> "none"]
IdleSH == [op |-> "none"]

Stride == MaxSamples + 1

\* the rows of a receiver are its own memory
Own(o) ==
    [o EXCEPT !.id = "self",
              !.coefficients.base = [i \in 1..o.coefficients.shape[1] |-> i]]

\* so are the rows of the a-th functional argument
Arg(o, a) ==
    [o EXCEPT !.id = "other",
              !.coefficients.base =
                  [i \in 1..o.coefficients.shape[1] |-> a * Stride + i]]

\* o as its memory stands when the matrix c, which may hold views of rows of
\* o's matrix, holds what it holds: a view shows the memory of its base
Behind(o, c) ==
    LET shown(j) == {i \in 1..Len(c.base) : c.base[i] = o.coefficients.base[j]}
    IN  [o EXCEPT !.coefficients.data =
            [j \in 1..Len(o.coefficients.data) |->
               IF shown(j) = {} THEN o.coefficients.data[j]
               ELSE c.data[CHOOSE i \in shown(j) : TRUE]]]

\* o as its memory stands once a call has returned r
Through(o, r) ==
    IF r.outcome # "instance" THEN o ELSE Behind(o, r.obj.coefficients)

Instances == {o \in {fd, fdRes.obj} : o.live}

\* the instances a program builds with the constructor: with and without names
Built ==
    UNION {{FDataBasis(basis, c, names) :
               names \in {NoNames, Named(atleast_2d(c).shape[1])}} :
           basis \in Bases, c \in Arr0 \cup Arr1 \cup Arr2}

Receivers == {Own(r.obj) : r \in {x \in Built : x.outcome = "instance"}}

\* the functional arguments of a call: m unnamed samples over a basis
Operands ==
    {FDataBasis(basis,
                [shape |-> <<m, basis.n_basis>>,
                 data  |-> [i \in 1..m |-> Row(i, basis.n_basis)],
                 base  |-> <<>>],
                NoNames).obj : basis \in Bases, m \in 1..MaxSamples}

\* an index: an integer k, a slice lo:hi or an integer array idx
Key(kind, k, lo, hi, idx) == [kind |-> kind, k |-> k, lo |-> lo, hi |-> hi, idx |-> idx]

Keys ==
    {Key("int", k, 0, 0, <<>>) : k \in (0 - MaxSamples)..MaxSamples}
    \cup {Key("slice", 0, lo, hi, <<>>) : lo \in 0..1, hi \in 1..MaxSamples}
    \cup {Key("array", 0, 0, 0, idx) : idx \in SeqsOf(0..(MaxSamples - 1), 1..2)}

NoKey == Key("none", 0, 0, 0, <<>>)

Weights ==
    {[given |-> FALSE, w |-> <<>>]}
    \cup {[given |-> TRUE, w |-> w] : w \in SeqsOf(0..1, 1..MaxSamples)}

Multipliers ==
    {[kind |-> "int", v |-> <<v>>] : v \in 0..1}
    \cup {[kind |-> "list", v |-> v] : v \in SeqsOf(0..1, 1..MaxSamples)}

NoNumber == [kind |-> "none", v |-> <<>>]

\* what a basis's derivative rule may hand back for coefficients c: a basis and
\* a matrix with as many rows as c
DerivativeRules(c) ==
    {RuleRaises("TypeError")}
    \cup
    {[outcome |-> "ok", basis |-> b,
      coefficients |-> [shape |-> <<c.shape[1], w>>,
                        data  |-> [i \in 1..c.shape[1] |-> [k \in 1..w |-> R(0)]],
                        base  |-> <<>>]] : b \in Bases, w \in 1..MaxBasis}

NoRes == [op |-> "none", basis |-> [n_basis |-> 0], arg |-> NoneArr,
          self |-> NoFD, others |-> <<>>, after |-> <<>>,
          key |-> NoKey, number |-> NoNumber, as_coordinates |-> FALSE,
          rule |-> NoRule, called |-> "none", value |-> <<>>,
          outcome |-> "none", ret |-> NoFD, obj |-> NoFD, wrote |-> "none"]

Called(op, basis, arg, r) ==
    [NoRes EXCEPT !.op = op, !.basis = basis, !.arg = arg,
                  !.outcome = r.outcome, !.ret = r.obj, !.obj = r.obj]

\* the call of method op on self, before its arguments are filled in
Method(op, self) == [NoRes EXCEPT !.op = op, !.basis = self.basis, !.self = self]

FDInit ==
    /\ fd \in Receivers
    /\ fdRes = NoRes
    /\ est = IdleNB /\ nbLast = IdleNB /\ nbHist = IdleNB
    /\ avLast = IdlePR /\ prCfg = IdlePR /\ prLast = IdlePR
    /\ scLast = IdleSC
    /\ sh = IdleSH /\ shLast = IdleSH /\ shPrev = IdleSH

Construct ==
    \E basis \in Bases, c \in Arr0 \cup Arr1 \cup Arr2 :
        /\ fdRes.op = "none"
        /\ fdRes' = Called("init", basis, c,
                           FDataBasis(basis, c, Named(atleast_2d(c).shape[1])))
        /\ fd' = fd
        /\ UNCHANGED <<nbVars, prVars, scVars, shVars>>

\* the call c, which returns or raises r
Call(c, r) ==
    /\ fdRes.op = "none"
    /\ fd' = Through(c.self, r)
    /\ fdRes' = [c EXCEPT !.after = [a \in 1..Len(c.others) |-> Through(c.others[a], r)],
                          !.outcome = r.outcome, !.ret = r.obj, !.obj = r.obj]
    /\ UNCHANGED <<nbVars, prVars, scVars, shVars>>

Copy ==
    Call(Method("copy", fd), copy(fd, NoneArr, NoNames))

GetItem ==
    \E key \in Keys :
        Call([Method("getitem", fd) EXCEPT !.key = key], getitem(fd, key))

Mean ==
    \E weights \in Weights :
        Call([Method("mean", fd) EXCEPT
                 !.number = IF weights.given
                            THEN [kind |-> "weights",
                                  v |-> [i \in 1..Len(weights.w) |-> R(weights.w[i])]]
                            ELSE NoNumber],
             mean(fd, weights))

Concatenate ==
    \E args \in SeqsOf(Operands, 0..2), as_coordinates \in BOOLEAN :
        LET others == [a \in 1..Len(args) |-> Arg(args[a], a)]
        IN  Call([Method("concatenate", fd) EXCEPT
                     !.others = others, !.as_coordinates = as_coordinates],
                 concatenate(fd, others, as_coordinates))

Times ==
    \E other \in Multipliers :
        Call([Method("times", fd) EXCEPT
                 !.number = [other EXCEPT !.v = [i \in 1..Len(other.v) |-> R(other.v[i])]]],
             times(fd, other))

\* the orders of a call: negative, zero and positive, whole and not
Orders == {RNorm(p, 2) : p \in (0 - 2)..3}

Derivative ==
    \E order \in Orders :
        \E rule \in DerivativeRules(fd.coefficients) :
            LET r == derivative(fd, order, rule)
            IN  Call([Method("derivative", fd) EXCEPT
                         !.number = [kind |-> "order", v |-> <<order>>],
                         !.rule = rule, !.called = r.called],
                     r)

\* what a basis's constant rule may answer for coefficients c and a number:
\* TypeError, or the basis and c with the number v put into the first column
ConstantRules(basis, c, op) ==
    {RuleRaises("TypeError")}
    \cup {[outcome |-> "ok", basis |-> basis,
           coefficients |->
              [shape |-> c.shape,
               data  |-> [i \in 1..c.shape[1] |->
                            [k \in 1..c.shape[2] |->
                               IF k = 1 THEN Arith(op, c.data[i][k], R(v)) ELSE c.data[i][k]]],
               base  |-> <<>>]] : v \in CoefVals}

\* self + other and self - other with a functional other
Add ==
    \E other \in Operands :
        LET rule == add_same_basis(fd.basis, fd.coefficients, other.coefficients)
            r    == add(fd, Arg(other, 1), rule)
        IN  Call([Method("add", fd) EXCEPT
                     !.others = <<Arg(other, 1)>>, !.rule = rule, !.called = r.called],
                 r)

Sub ==
    \E other \in Operands :
        LET rule == sub_same_basis(fd.basis, fd.coefficients, other.coefficients)
            r    == sub(fd, Arg(other, 1), rule)
        IN  Call([Method("sub", fd) EXCEPT
                     !.others = <<Arg(other, 1)>>, !.rule = rule, !.called = r.called],
                 r)

\* self + other and self - other with an other that is not functional
AddConstant ==
    \E rule \in ConstantRules(fd.basis, fd.coefficients, "add") :
        LET r == add(fd, NoFD, rule)
        IN  Call([Method("add", fd) EXCEPT !.rule = rule, !.called = r.called], r)

SubConstant ==
    \E rule \in ConstantRules(fd.basis, fd.coefficients, "sub") :
        LET r == sub(fd, NoFD, rule)
        IN  Call([Method("sub", fd) EXCEPT !.rule = rule, !.called = r.called], r)

\* the numbers of an operator: a scalar, a list of numbers or a str
Numbers ==
    {[kind |-> "scalar", v |-> <<R(x)>>] : x \in 0..2}
    \cup {[kind |-> "list", v |-> [i \in 1..Len(v) |-> R(v[i])]] :
             v \in SeqsOf(1..2, 1..MaxSamples)}
    \cup {[kind |-> "str", v |-> <<>>]}

\* self * other
Mul ==
    \E other \in Operands :
        LET r == mul(fd, Arg(other, 1), NoRule)
        IN  Call([Method("mul", fd) EXCEPT
                     !.others = <<Arg(other, 1)>>, !.called = r.called], r)

MulConstant ==
    \E number \in Numbers :
        LET rule == mul_constant(fd.basis, fd.coefficients, number)
            r    == mul(fd, NoFD, rule)
        IN  Call([Method("mul", fd) EXCEPT
                     !.number = number, !.rule = rule, !.called = r.called], r)

\* self / other
TrueDiv ==
    \E other \in Operands :
        LET r == truediv(fd, Arg(other, 1), NoNumber)
        IN  Call([Method("truediv", fd) EXCEPT
                     !.others = <<Arg(other, 1)>>, !.called = r.called], r)

TrueDivConstant ==
    \E number \in Numbers :
        LET r == truediv(fd, NoFD, number)
        IN  Call([Method("truediv", fd) EXCEPT
                     !.number = number, !.called = r.called], r)

\* other / self
RTrueDiv ==
    \E other \in Operands :
        LET r == rtruediv(fd, Arg(other, 1), NoNumber)
        IN  Call([Method("rtruediv", fd) EXCEPT
                     !.others = <<Arg(other, 1)>>, !.called = r.called], r)

RTrueDivConstant ==
    \E number \in Numbers :
        LET r == rtruediv(fd, NoFD, number)
        IN  Call([Method("rtruediv", fd) EXCEPT
                     !.number = number, !.called = r.called], r)

\* o with ones in its last row
LastOnes(o) ==
    [o EXCEPT !.coefficients.data[n_samples(o)] = [k \in 1..Len(@) |-> R(1)]]

\* self == other, with other an instance or something else
Eq ==
    \E o \in Operands \cup {LastOnes(x) : x \in Operands} \cup {NoFD} :
        LET other == IF o.live THEN Arg(o, 1) ELSE NoFD
            r     == eq(fd, other)
        IN  Call([Method("eq", fd) EXCEPT
                     !.others = IF o.live THEN <<other>> ELSE <<>>,
                     !.value = r.value], r)

\* PhasePlanePlot(fd, fdata2).plot() and PhasePlanePlot(fd).plot()
Plot ==
    \E fdata2 \in Operands \cup {NoFD} :
        LET other == IF fdata2.live THEN Arg(fdata2, 1) ELSE NoFD
            r     == plot(fd, other)
        IN  Call([Method("plot", fd) EXCEPT
                     !.others = IF fdata2.live THEN <<other>> ELSE <<>>,
                     !.called = r.called], r)

\* the value a program writes into a matrix
Written == R(2)

\* a[i, k] = Written
SetItem(a, i, k) == [a EXCEPT !.data[i][k] = Written]

\* after a call that returned an instance, coefficients[i, k] = Written on the
\* returned instance or on the receiver; the other one shows it where its
\* matrix shares that memory
Write ==
    /\ fdRes.outcome = "instance" /\ fdRes.wrote = "none"
    /\ fdRes.op # "init"
    /\ \E on \in {"result", "self"} :
         LET o == IF on = "result" THEN fdRes.obj ELSE fd
         IN  \E i \in 1..o.coefficients.shape[1], k \in 1..o.coefficients.shape[2] :
               LET c == SetItem(o.coefficients, i, k)
               IN  IF on = "result"
                   THEN /\ fdRes' = [fdRes EXCEPT !.obj.coefficients = c, !.wrote = on]
                        /\ fd' = Behind(fd, c)
                   ELSE /\ fd' = [fd EXCEPT !.coefficients = c]
                        /\ fdRes' = [fdRes EXCEPT
                                       !.obj.coefficients.data =
                                           [j \in 1..Len(@) |->
                                              IF fdRes.obj.coefficients.base # <<>>
                                                 /\ fdRes.obj.coefficients.base[j] = c.base[i]
                                              THEN c.data[i] ELSE @[j]],
                                       !.wrote = on]
    /\ UNCHANGED <<nbVars, prVars, scVars, shVars>>

FDNext ==
    \/ Construct
    \/ Copy
    \/ GetItem
    \/ Mean
    \/ Concatenate
    \/ Times
    \/ Derivative
    \/ Add
    \/ Sub
    \/ AddConstant
    \/ SubConstant
    \/ Mul
    \/ MulConstant
    \/ TrueDiv
    \/ TrueDivConstant
    \/ RTrueDiv
    \/ RTrueDivConstant
    \/ Eq
    \/ Plot
    \/ Write

SpecFD == FDInit /\ [][FDNext]_vars

-----------------------------------------------------------------------------
(* FDataBasis.shift (SpecShift).  The receiver is an instance over a        *)
(* Monomial basis 1, t, t^2, ... with a domain; bases of functions of       *)
(* several variables or coordinates are there for the dimension check.      *)
(* Evaluation is done with extrapolation=None: outside the domain the       *)
(* basis functions are evaluated as they are.  The least squares fit of     *)
(* from_data is not in the repository: its result is held as the            *)
(* observations it was fitted to, which an exact fit passes through.  A     *)
(* call record tells the arguments, the outcome, the steps taken, the new   *)
(* domain, the evaluation grid, the points each sample was evaluated at     *)
(* and the fit.                                                             *)

\* a <= b for floats that are numbers
RLeq(a, b) == a[1] * b[2] <= b[1] * a[2]

RMin(a, b) == IF RLeq(a, b) THEN a ELSE b

RMax(a, b) == IF RLeq(a, b) THEN b ELSE a

\* np.min and np.max of a vector
RECURSIVE np_min(_)
np_min(v) == IF Len(v) = 1 THEN v[1] ELSE RMin(v[1], np_min(Tail(v)))

RECURSIVE np_max(_)
np_max(v) == IF Len(v) = 1 THEN v[1] ELSE RMax(v[1], np_max(Tail(v)))

RECURSIVE RPow(_, _)
RPow(x, k) == IF k = 0 THEN R(1) ELSE RMul(x, RPow(x, k - 1))

\* the size of the coarse mesh
N_POINTS_COARSE_MESH == 3

\* Basis.evaluate of a Monomial basis at one point: a value per basis function
basis_evaluate(basis, t) == [k \in 1..basis.n_basis |-> RPow(t, k - 1)]

\* Basis.rescale: the basis over another domain
rescale(basis, domain) == [basis EXCEPT !.domain_range = domain]

\* np.linspace(a, b, n) for n > 1
linspace(a, b, n) ==
    [j \in 1..n |-> RAdd(a, RDiv(RMul(RSub(b, a), R(j - 1)), R(n - 1)))]

\* the entries of v that test keeps, in order
RECURSIVE Masked(_, _)
Masked(v, keep) ==
    IF v = <<>> THEN <<>>
    ELSE (IF keep[1] THEN <<v[1]>> ELSE <<>>) \o Masked(Tail(v), Tail(keep))

\* FDataBasis._evaluate: eval_points is a vector of points when aligned, a row
\* of points per sample when not; the one coordinate of the values is dropped
evaluate(self, eval_points, aligned) ==
    LET value(i, t) ==
            RSum([k \in 1..self.basis.n_basis |->
                    RMul(self.coefficients.data[i][k], basis_evaluate(self.basis, t)[k])])
    IN  [i \in 1..n_samples(self) |->
           LET points == IF aligned THEN eval_points ELSE eval_points[i]
           IN  [j \in 1..Len(points) |-> value(i, points[j])]]

NoFit == [basis |-> [n_basis |-> 0], sample_points |-> <<>>, data_matrix |-> <<>>]

\* FDataBasis.from_data: the fit in basis to data_matrix seen at sample_points
from_data(data_matrix, sample_points, basis) ==
    [basis |-> basis, sample_points |-> sample_points, data_matrix |-> data_matrix]

\* the argument eval_points=None
NoPoints == [given |-> FALSE, t |-> <<>>]

Shifted(outcome, steps, domain, grid, evaluated, fit) ==
    [outcome |-> outcome, steps |-> steps, domain |-> domain, grid |-> grid,
     evaluated |-> evaluated, fit |-> fit]

ShiftRaises(e) == Shifted(e, <<>>, <<>>, <<>>, <<>>, NoFit)

\* the grid to discretize the functions on: the caller's, or nfine points
\* over the domain
shift_grid(self, eval_points) ==
    LET domain_range == self.basis.domain_range
        nfine == IF self.basis.n_basis * 10 + 1 > N_POINTS_COARSE_MESH
                 THEN self.basis.n_basis * 10 + 1 ELSE N_POINTS_COARSE_MESH
    IN  IF eval_points.given THEN eval_points.t
        ELSE linspace(domain_range[1], domain_range[2], nfine)

\* the rest of shift once the dimensions are known to be one; shifts is
\* [kind, v] with kind "scalar" or "vector"
shift_curves(self, shifts, restrict_domain, eval_points) ==
    LET domain_range == self.basis.domain_range
        points == shift_grid(self, eval_points)
    IN  IF shifts.kind = "scalar"
        THEN LET s == shifts.v[1]
                 domain == <<RAdd(domain_range[1], s), RAdd(domain_range[2], s)>>
                 _basis == rescale(self.basis, domain)
             IN  Shifted("instance", <<"rescale", "evaluate", "from_data">>, domain, points,
                         [i \in 1..n_samples(self) |-> points],
                         from_data(evaluate(self, points, TRUE),
                                   [j \in 1..Len(points) |-> RAdd(points[j], s)],
                                   _basis))
        ELSE IF Len(shifts.v) # n_samples(self) THEN ShiftRaises("ValueError")
        ELSE LET a == RSub(domain_range[1], RMin(np_min(shifts.v), R(0)))
                 b == RSub(domain_range[2], RMax(np_max(shifts.v), R(0)))
                 domain == IF restrict_domain THEN <<a, b>> ELSE domain_range
                 grid == IF restrict_domain
                         THEN Masked(points, [j \in 1..Len(points) |->
                                                RLeq(a, points[j]) /\ RLeq(points[j], b)])
                         ELSE points
                 points_shifted == [i \in 1..n_samples(self) |->
                                      [j \in 1..Len(grid) |-> RAdd(grid[j], shifts.v[i])]]
                 _data_matrix == evaluate(self, points_shifted, FALSE)
             IN  Shifted("instance", <<"evaluate", "rescale", "from_data">>, domain, grid,
                         points_shifted,
                         from_data(_data_matrix, grid, rescale(self.basis, domain)))

\* (mutant) a shift that does not look at the dimensions
shift_any_dimension(self, shifts, restrict_domain, eval_points) ==
    shift_curves(self, shifts, restrict_domain, eval_points)

\* (mutant) a shift that never restricts the domain
shift_unrestricted(self, shifts, restrict_domain, eval_points) ==
    IF dim_codomain(self) > 1 \/ dim_domain(self) > 1
    THEN ShiftRaises("ValueError")
    ELSE shift_curves(self, shifts, FALSE, eval_points)

\* FDataBasis.shift
shift(self, shifts, restrict_domain, eval_points) ==
    IF dim_codomain(self) > 1 \/ dim_domain(self) > 1
    THEN ShiftRaises("ValueError")
    ELSE shift_curves(self, shifts, restrict_domain, eval_points)

\* the domains of the bases
Domains == {<<R(0), R(1)>>, <<R(1), R(3)>>}

ShiftBases ==
    {[n_basis |-> k, dim_domain |-> 1, dim_codomain |-> 1, domain_range |-> d] :
        k \in 1..MaxBasis, d \in Domains}
    \cup {[n_basis |-> 1, dim_domain |-> dd, dim_codomain |-> dc,
           domain_range |-> <<R(0), R(1)>>] :
            dd \in 1..2, dc \in 1..2}

\* the receivers: instances built with the constructor over these bases
ShiftReceivers ==
    {r.obj : r \in {x \in {FDataBasis(basis, c, NoNames) :
                             basis \in ShiftBases, c \in Arr2} :
                      x.outcome = "instance"}}

ShiftVals == {RNorm(p, 2) : p \in (0 - 1)..2}

ShiftArgs ==
    {[kind |-> "scalar", v |-> <<s>>] : s \in ShiftVals}
    \cup {[kind |-> "vector", v |-> v] : v \in SeqsOf(ShiftVals, 1..MaxSamples)}

\* eval_points: None or points of the caller, some of them outside the domain
EvalPoints == {NoPoints, [given |-> TRUE, t |-> [j \in 1..5 |-> RNorm(j - 2, 2)]]}

NoShift == [op |-> "none", shifts |-> [kind |-> "none", v |-> <<>>],
            restrict_domain |-> FALSE, eval_points |-> NoPoints,
            outcome |-> "none", steps |-> <<>>, domain |-> <<>>, grid |-> <<>>,
            evaluated |-> <<>>, fit |-> NoFit]

ShiftCall(shifts, restrict_domain, eval_points, r) ==
    [op |-> "shift", shifts |-> shifts, restrict_domain |-> restrict_domain,
     eval_points |-> eval_points, outcome |-> r.outcome, steps |-> r.steps,
     domain |-> r.domain, grid |-> r.grid, evaluated |-> r.evaluated, fit |-> r.fit]

SHInit ==
    /\ sh \in ShiftReceivers
    /\ shLast = NoShift /\ shPrev = NoShift
    /\ fd = NoFD /\ fdRes = NoRes
    /\ est = IdleNB /\ nbLast = IdleNB /\ nbHist = IdleNB
    /\ avLast = IdlePR /\ prCfg = IdlePR /\ prLast = IdlePR
    /\ scLast = IdleSC

\* sh.shift(shifts, restrict_domain=..., eval_points=...)
Shift ==
    \E shifts \in ShiftArgs, restrict_domain \in BOOLEAN, eval_points \in EvalPoints :
        /\ shLast.op = "none"
        /\ shLast' = ShiftCall(shifts, restrict_domain, eval_points,
                               shift(sh, shifts, restrict_domain, eval_points))
        /\ UNCHANGED <<sh, shPrev, fdVars, nbVars, prVars, scVars>>

\* after a shift by a number: the shift by the vector that holds that number
\* for every sample, the other arguments as before
ShiftEach ==
    /\ shLast.op = "shift" /\ shPrev.op = "none"
    /\ shLast.shifts.kind = "scalar"
    /\ LET shifts == [kind |-> "vector",
                      v |-> [i \in 1..n_samples(sh) |-> shLast.shifts.v[1]]]
       IN  shLast' = ShiftCall(shifts, shLast.restrict_domain, shLast.eval_points,
                               shift(sh, shifts, shLast.restrict_domain,
                                     shLast.eval_points))
    /\ shPrev' = shLast
    /\ UNCHANGED <<sh, fdVars, nbVars, prVars, scVars>>

SHNext == Shift \/ ShiftEach

SpecShift == SHInit /\ [][SHNext]_vars

-----------------------------------------------------------------------------
(* The neighbors estimators.  Functional data X is [id, n]: the data set and *)
(* its number of samples; data set d is sampled on the grid 0..d.  A         *)
(* response y is [given, functional, id, n].                                 *)

XS == {[id |-> d, n |-> n] : d \in DataIds, n \in 1..MaxSamples}

NoX == [id |-> 0, n |-> 0]

\* functional responses and arrays of numbers
YS == {[given |-> TRUE, functional |-> TRUE, id |-> d, n |-> n] :
         d \in DataIds, n \in 1..MaxSamples}
      \cup {[given |-> TRUE, functional |-> FALSE, id |-> 1, n |-> n] :
               n \in 1..MaxSamples}

\* the data a query or a prediction is asked about
QS == {[id |-> d, n |-> 1] : d \in DataIds}

NoY == [given |-> FALSE, functional |-> FALSE, id |-> 0, n |-> 0]

\* X.grid_points and X.data_matrix.shape[1:]
grid_points(X) == << [i \in 1..(X.id + 1) |-> i - 1] >>

data_shape(X) == <<X.id + 1, 1>>

Unset == <<>>

\* what is handed to the sklearn index: the flattened curves of X, X as it is,
\* a matrix of zeros or a matrix of distances to the training data
Matrix(form, X) == [form |-> form, id |-> X.id, n |-> X.n]

NoMatrix == Matrix("none", NoX)

\* _to_multivariate
to_multivariate(X) == Matrix("flat", X)

\* NeighborsBase._transform_to_multivariate
transform_to_multivariate(e, X) ==
    IF e.metric # "precomputed" THEN to_multivariate(X) ELSE Matrix("raw", X)

(* The sklearn index (external).  Its fit validates its arguments and raises *)
(* ValueError when X and y differ in length; its queries raise               *)
(* NotFittedError until a fit has succeeded.                                 *)

NoIndex == [cls |-> "none", metric |-> "none", grid |-> Unset,
            fitted |-> FALSE, X |-> NoMatrix, y |-> NoY]

\* sklearn.neighbors.NearestNeighbors(...) or the subclass's multivariate one
NewIndex(cls, sklearn_metric, grid) ==
    [cls |-> cls, metric |-> sklearn_metric, grid |-> grid,
     fitted |-> FALSE, X |-> NoMatrix, y |-> NoY]

\* estimator_.fit(Xt, y)
IndexFit(index, Xt, y) ==
    IF y.given /\ y.n # Xt.n
    THEN [index |-> index, outcome |-> "ValueError"]
    ELSE [index |-> [index EXCEPT !.fitted = TRUE, !.X = Xt, !.y = y],
          outcome |-> "ok"]

\* NeighborsBase.__init__ : the attributes of a new estimator
NewEstimator(kind, metric, precompute_metric, multivariate_metric) ==
    [kind |-> kind, metric |-> metric,
     precompute_metric |-> precompute_metric,
     multivariate_metric |-> multivariate_metric,
     has_estimator_ |-> FALSE, estimator_ |-> NoIndex,
     has_grid_points |-> FALSE, grid_points |-> Unset, shape |-> Unset,
     has_fit_X |-> FALSE, fit_X |-> NoX,
     has_y |-> FALSE, y |-> NoY,
     functional |-> "unset"]

\* NeighborsRegressorMixin._init_estimator; a classifier's makes its own index
init_estimator(e, sklearn_metric, grid) ==
    IF e.kind = "regressor" /\ e.functional = "yes"
    THEN NewIndex("NearestNeighbors", sklearn_metric, grid)
    ELSE NewIndex("multivariate", sklearn_metric, grid)

\* what a call did: the estimator after it, how it ended and the steps it took
Did(e, outcome, steps) == [est |-> e, outcome |-> outcome, steps |-> steps]


\* NeighborsBase.fit
NeighborsBase_fit(e, X, y) ==
    IF e.metric = "precomputed"
    THEN LET e1 == [e EXCEPT !.has_estimator_ = TRUE,
                             !.estimator_ = init_estimator(e, "precomputed", Unset)]
             f  == IndexFit(e1.estimator_, Matrix("raw", X), y)
         IN  Did([e1 EXCEPT !.estimator_ = f.index], f.outcome,
                 <<"init_index", "fit_index">>)
    ELSE LET e1 == [e EXCEPT !.has_grid_points = TRUE,
                             !.grid_points = grid_points(X),
                             !.shape = data_shape(X)]
             branch == IF e.multivariate_metric THEN "multivariate"
                       ELSE IF e.precompute_metric THEN "precomputed"
                       ELSE "adapter"
             e2 == IF branch = "precomputed"
                   THEN [e1 EXCEPT !.has_fit_X = TRUE, !.fit_X = X]
                   ELSE e1
             Xt == IF branch = "precomputed" THEN Matrix("zeros", X)
                   ELSE transform_to_multivariate(e, X)
             grid == IF branch = "adapter" THEN e1.grid_points ELSE Unset
             e3 == [e2 EXCEPT !.has_estimator_ = TRUE,
                              !.estimator_ = init_estimator(e2, branch, grid)]
             f  == IndexFit(e3.estimator_, Xt, y)
         IN  Did([e3 EXCEPT !.estimator_ = f.index], f.outcome,
                 <<"grid_points", "fit_metric", "init_index", "fit_index">>)

\* (mutant) a functional fit that compares the lengths only after fitting the index
functional_fit_late_check(e, X, y) ==
    LET e1 == [e EXCEPT !.has_grid_points = TRUE,
                        !.grid_points = grid_points(X),
                        !.shape = data_shape(X)]
        e2 == [e1 EXCEPT !.has_estimator_ = TRUE,
                         !.estimator_ = IndexFit(
                             init_estimator(e1, "adapter", e1.grid_points),
                             transform_to_multivariate(e, X), NoY).index]
    IN  IF X.n # y.n
        THEN Did(e2, "ValueError", <<"grid_points", "init_index", "fit_index", "check_length">>)
        ELSE Did([e2 EXCEPT !.has_y = TRUE, !.y = y], "ok",
                 <<"grid_points", "init_index", "fit_index", "check_length", "store_y">>)

\* (mutant) a functional fit that keeps the responses of an earlier fit
functional_fit_keep_y(e, X, y) ==
    LET e1 == [e EXCEPT !.has_grid_points = TRUE,
                        !.grid_points = grid_points(X),
                        !.shape = data_shape(X)]
        e2 == [e1 EXCEPT !.has_estimator_ = TRUE,
                         !.estimator_ = IndexFit(
                             init_estimator(e1, "adapter", e1.grid_points),
                             transform_to_multivariate(e, X), NoY).index]
    IN  IF X.n # y.n
        THEN Did(e, "ValueError", <<"check_length">>)
        ELSE Did(IF e.has_y THEN e2 ELSE [e2 EXCEPT !.has_y = TRUE, !.y = y], "ok",
                 <<"check_length", "grid_points", "init_index", "fit_index", "store_y">>)

\* NeighborsRegressorMixin._functional_fit
functional_fit(e, X, y) ==
    IF X.n # y.n
    THEN Did(e, "ValueError", <<"check_length">>)
    ELSE IF e.metric = "precomputed"
    THEN LET e1 == [e EXCEPT !.has_estimator_ = TRUE,
                             !.estimator_ = init_estimator(e, "precomputed", Unset)]
             f  == IndexFit(e1.estimator_, Matrix("raw", X), NoY)
         IN  IF f.outcome # "ok"
             THEN Did([e1 EXCEPT !.estimator_ = f.index], f.outcome,
                      <<"check_length", "init_index", "fit_index">>)
             ELSE Did([e1 EXCEPT !.estimator_ = f.index, !.has_y = TRUE, !.y = y],
                      "ok", <<"check_length", "init_index", "fit_index", "store_y">>)
    ELSE LET e1 == [e EXCEPT !.has_grid_points = TRUE,
                             !.grid_points = grid_points(X),
                             !.shape = data_shape(X)]
             branch == IF e.multivariate_metric THEN "multivariate" ELSE "adapter"
             grid == IF branch = "adapter" THEN e1.grid_points ELSE Unset
             e2 == [e1 EXCEPT !.has_estimator_ = TRUE,
                              !.estimator_ = init_estimator(e1, branch, grid)]
             f  == IndexFit(e2.estimator_, transform_to_multivariate(e, X), NoY)
         IN  IF f.outcome # "ok"
             THEN Did([e2 EXCEPT !.estimator_ = f.index], f.outcome,
                      <<"check_length", "grid_points", "init_index", "fit_index">>)
             ELSE Did([e2 EXCEPT !.estimator_ = f.index, !.has_y = TRUE, !.y = y],
                      "ok", <<"check_length", "grid_points", "init_index",
                              "fit_index", "store_y">>)

\* NeighborsRegressorMixin.fit
regressor_fit(e, X, y) ==
    LET e1 == [e EXCEPT !.functional = IF y.functional THEN "yes" ELSE "no"]
    IN  IF y.functional THEN functional_fit(e1, X, y)
        ELSE NeighborsBase_fit(e1, X, y)

\* NeighborsClassifierMixin.fit
classifier_fit(e, X, y) == NeighborsBase_fit(e, X, y)

\* what a query or a prediction did: also the dispatch it took, what it gave
\* the index, and the training data and responses its result is computed from
Done(e, outcome, steps, dispatch, given, usedX, usedY) ==
    [est |-> e, outcome |-> outcome, steps |-> steps, dispatch |-> dispatch,
     given |-> given, usedX |-> usedX, usedY |-> usedY]

NotFitted(e) ==
    Done(e, "NotFittedError", <<"check_is_fitted">>, "none", NoMatrix, NoMatrix, NoY)

\* estimator_.kneighbors(Xt), estimator_.predict(Xt), ... on the sklearn index
IndexQuery(index, Xt) ==
    IF index.fitted THEN "ok" ELSE "NotFittedError"

\* the body shared by the four neighbor queries, after _check_is_fitted
Delegate(e, X) ==
    LET Xt == transform_to_multivariate(e, X)
        o  == IndexQuery(e.estimator_, Xt)
    IN  Done(e, o, <<"check_is_fitted", "transform", "delegate">>, "none", Xt,
             IF o = "ok" THEN e.estimator_.X ELSE NoMatrix, NoY)

\* KNeighborsMixin.kneighbors
kneighbors(e, X) ==
    IF ~e.has_estimator_ THEN NotFitted(e) ELSE Delegate(e, X)

\* KNeighborsMixin.kneighbors_graph
kneighbors_graph(e, X) ==
    IF ~e.has_estimator_ THEN NotFitted(e) ELSE Delegate(e, X)

\* RadiusNeighborsMixin.radius_neighbors
radius_neighbors(e, X) ==
    IF ~e.has_estimator_ THEN NotFitted(e) ELSE Delegate(e, X)

\* RadiusNeighborsMixin.radius_neighbors_graph
radius_neighbors_graph(e, X) ==
    IF ~e.has_estimator_ THEN NotFitted(e) ELSE Delegate(e, X)

\* NeighborsClassifierMixin.predict
classifier_predict(e, X) ==
    IF ~e.has_estimator_ THEN NotFitted(e)
    ELSE IF e.precompute_metric
    THEN IF ~e.has_fit_X
         THEN Done(e, "AttributeError", <<"check_is_fitted", "pairwise">>,
                   "none", NoMatrix, NoMatrix, NoY)
         ELSE LET Xt == Matrix("distances", X)
                  o  == IndexQuery(e.estimator_, Xt)
              IN  Done(e, o, <<"check_is_fitted", "pairwise", "delegate">>,
                       "none", Xt,
                       IF o = "ok" THEN e.estimator_.X ELSE NoMatrix,
                       IF o = "ok" THEN e.estimator_.y ELSE NoY)
    ELSE LET Xt == transform_to_multivariate(e, X)
             o  == IndexQuery(e.estimator_, Xt)
         IN  Done(e, o, <<"check_is_fitted", "transform", "delegate">>,
                  "none", Xt,
                  IF o = "ok" THEN e.estimator_.X ELSE NoMatrix,
                  IF o = "ok" THEN e.estimator_.y ELSE NoY)

\* NeighborsRegressorMixin._multivariate_predict
multivariate_predict(e, X) ==
    LET Xt == transform_to_multivariate(e, X)
        o  == IF e.estimator_.cls # "multivariate" THEN "AttributeError"
              ELSE IndexQuery(e.estimator_, Xt)
    IN  Done(e, o, <<"check_is_fitted", "transform", "delegate">>,
             "multivariate", Xt,
             IF o = "ok" THEN e.estimator_.X ELSE NoMatrix,
             IF o = "ok" THEN e.estimator_.y ELSE NoY)

\* NeighborsRegressorMixin._functional_predict: the neighbors come from the
\* index, the responses that are averaged from self._y
functional_predict(e, X) ==
    LET Xt == transform_to_multivariate(e, X)
        o  == IndexQuery(e.estimator_, Xt)
    IN  IF o # "ok"
        THEN Done(e, o, <<"check_is_fitted", "transform", "delegate">>,
                  "functional", Xt, NoMatrix, NoY)
        ELSE IF ~e.has_y
        THEN Done(e, "AttributeError",
                  <<"check_is_fitted", "transform", "delegate", "responses">>,
                  "functional", Xt, NoMatrix, NoY)
        ELSE Done(e, "ok",
                  <<"check_is_fitted", "transform", "delegate", "responses">>,
                  "functional", Xt, e.estimator_.X, e.y)

\* (mutant) a predict that takes the functional path whenever responses are stored
regressor_predict_by_y(e, X) ==
    IF ~e.has_estimator_ THEN NotFitted(e)
    ELSE IF e.has_y THEN functional_predict(e, X)
    ELSE multivariate_predict(e, X)

\* NeighborsRegressorMixin.predict
regressor_predict(e, X) ==
    IF ~e.has_estimator_ THEN NotFitted(e)
    ELSE IF e.functional = "yes" THEN functional_predict(e, X)
    ELSE multivariate_predict(e, X)

\* NeighborsRegressorMixin.score and the prediction _functional_score or
\* sklearn's score starts from
regressor_score(e, X) ==
    IF e.functional = "unset"
    THEN Done(e, "AttributeError", <<"read_functional">>, "none",
              NoMatrix, NoMatrix, NoY)
    ELSE LET p == regressor_predict(e, X)
             first == IF e.functional = "yes"
                      THEN <<"read_functional", "check_dims">>
                      ELSE <<"read_functional">>
             last  == IF p.outcome # "ok" THEN <<>>
                      ELSE IF e.functional = "yes" THEN <<"functional_r2">>
                      ELSE <<"r2_score">>
         IN  [p EXCEPT !.steps = first \o @ \o last,
                       !.dispatch = IF e.functional = "yes" THEN "functional"
                                    ELSE "multivariate"]

(* SpecNB: an estimator is constructed and then fitted, queried, asked to    *)
(* predict and scored in any order.                                          *)

Kinds == {"classifier", "regressor"}

Metrics == {"l2", "precomputed"}

NoCall == [op |-> "none", X |-> NoX, y |-> NoY, outcome |-> "none",
           steps |-> <<>>, dispatch |-> "none", given |-> NoMatrix,
           usedX |-> NoMatrix, usedY |-> NoY]

Recorded(op, X, y, r) ==
    [op |-> op, X |-> X, y |-> y, outcome |-> r.outcome, steps |-> r.steps,
     dispatch |-> r.dispatch, given |-> r.given,
     usedX |-> r.usedX, usedY |-> r.usedY]

\* the fits so far: whether one has succeeded, whether the latest one did, and
\* the data of the latest one that did
NoFits == [anySuccess |-> FALSE, lastFitOk |-> FALSE, X |-> NoX, y |-> NoY]

NBInit ==
    /\ est \in {NewEstimator(k, m, p, mv) :
                  k \in Kinds, m \in Metrics, p \in BOOLEAN, mv \in BOOLEAN}
    /\ nbLast = NoCall
    /\ nbHist = NoFits
    /\ fd = NoFD /\ fdRes = NoRes
    /\ avLast = IdlePR /\ prCfg = IdlePR /\ prLast = IdlePR
    /\ scLast = IdleSC
    /\ sh = IdleSH /\ shLast = IdleSH /\ shPrev = IdleSH

\* a call of fit that did r
Fitted(X, y, r) ==
    /\ est' = r.est
    /\ nbLast' = Recorded("fit", X, y,
                          Done(r.est, r.outcome, r.steps, "none",
                               NoMatrix, NoMatrix, NoY))
    /\ nbHist' = IF r.outcome = "ok"
                 THEN [anySuccess |-> TRUE, lastFitOk |-> TRUE, X |-> X, y |-> y]
                 ELSE [nbHist EXCEPT !.lastFitOk = FALSE]
    /\ UNCHANGED <<fdVars, prVars, scVars, shVars>>

\* any other call: it leaves the estimator as r says
Asked(op, X, r) ==
    /\ est' = r.est
    /\ nbLast' = Recorded(op, X, NoY, r)
    /\ UNCHANGED <<nbHist, fdVars, prVars, scVars, shVars>>

ClassifierFit ==
    /\ est.kind = "classifier"
    /\ \E X \in XS, y \in {t \in YS : ~t.functional} :
          Fitted(X, y, classifier_fit(est, X, y))

RegressorFit ==
    /\ est.kind = "regressor"
    /\ \E X \in XS, y \in YS : Fitted(X, y, regressor_fit(est, X, y))

Kneighbors == \E X \in QS : Asked("kneighbors", X, kneighbors(est, X))

KneighborsGraph ==
    \E X \in QS : Asked("kneighbors_graph", X, kneighbors_graph(est, X))

RadiusNeighbors ==
    \E X \in QS : Asked("radius_neighbors", X, radius_neighbors(est, X))

RadiusNeighborsGraph ==
    \E X \in QS :
        Asked("radius_neighbors_graph", X, radius_neighbors_graph(est, X))

ClassifierPredict ==
    /\ est.kind = "classifier"
    /\ \E X \in QS : Asked("predict", X, classifier_predict(est, X))

RegressorPredict ==
    /\ est.kind = "regressor"
    /\ \E X \in QS : Asked("predict", X, regressor_predict(est, X))

RegressorScore ==
    /\ est.kind = "regressor"
    /\ \E X \in QS : Asked("score", X, regressor_score(est, X))

NBNext ==
    \/ ClassifierFit
    \/ RegressorFit
    \/ Kneighbors
    \/ KneighborsGraph
    \/ RadiusNeighbors
    \/ RadiusNeighborsGraph
    \/ ClassifierPredict
    \/ RegressorPredict
    \/ RegressorScore

SpecNB == NBInit /\ [][NBNext]_vars

-----------------------------------------------------------------------------
(* The functional prediction.  A functional sample is the sequence of its    *)
(* values at the points of its grid; sums, means and products by a number    *)
(* act on each value.                                                        *)

FAdd(a, b) == [k \in 1..Len(a) |-> RAdd(a[k], b[k])]

FScale(a, w) == [k \in 1..Len(a) |-> RMul(a[k], w)]

\* np.sum(X, axis=0) over the samples of X (X is not empty)
RECURSIVE FSum(_)
FSum(X) == IF Len(X) = 1 THEN X[1] ELSE FAdd(X[1], FSum(Tail(X)))

\* np.mean(X, axis=0)
FMean(X) == [k \in 1..Len(X[1]) |-> RDiv(FSum(X)[k], R(Len(X)))]

\* the j-th stored training response
TrainResponse(j) == <<R(j), R(j * j)>>

\* self.weights: "uniform", "distance" or a callable of the caller
Policy(kind, f) == [kind |-> kind, f |-> f]

Callables == {"identity", "ones", "kernel"}

Policies ==
    {Policy("uniform", "none"), Policy("distance", "none")}
    \cup {Policy("callable", f) : f \in Callables}

\* self.weights(distance) for the callables of the model: the distances
\* themselves, the constant 1, and a kernel that is 1 below distance 1 and 0 from there on
apply_weights(f, distance) ==
    [i \in 1..Len(distance) |->
        IF f = "identity" THEN distance[i]
        ELSE IF f = "ones" THEN R(1)
        ELSE IF distance[i][1] < distance[i][2] THEN R(1) ELSE R(0)]

\* (mutant) reciprocal distances whatever the distances are
distance_weights_reciprocal(distance) ==
    [i \in 1..Len(distance) |-> RDiv(R(1), distance[i])]

\* NeighborsRegressorMixin._distance_weights
distance_weights(distance) ==
    IF \E i \in 1..Len(distance) : distance[i] = R(0)
    THEN [i \in 1..Len(distance) |->
            IF distance[i] = R(0) THEN R(1) ELSE R(0)]
    ELSE [i \in 1..Len(distance) |-> RDiv(R(1), distance[i])]

NoWeights == [given |-> FALSE, w |-> <<>>]

\* what an aggregation did: the weights it was given, the weights it summed
\* with, and the sample it returns
Averaged(raw, w, pred) == [raw |-> raw, w |-> w, pred |-> pred]

\* NeighborsRegressorMixin._average
average(X, weights) ==
    IF ~weights.given THEN Averaged(<<>>, <<>>, FMean(X))
    ELSE LET total == RSum(weights.w)
             w == [i \in 1..Len(weights.w) |-> RDiv(weights.w[i], total)]
         IN  Averaged(weights.w, w,
                      FSum([i \in 1..Len(X) |-> FScale(X[i], w[i])]))

\* NeighborsRegressorMixin._prediction_from_neighbors
prediction_from_neighbors(weights, neighbors, distance) ==
    average(neighbors,
            IF weights.kind = "uniform" THEN NoWeights
            ELSE IF weights.kind = "distance"
            THEN [given |-> TRUE, w |-> distance_weights(distance)]
            ELSE [given |-> TRUE, w |-> apply_weights(weights.f, distance)])

(* SpecAverage: a regressor with some weights policy aggregates the          *)
(* responses of one neighborhood after another.                              *)

Distances == {R(d) : d \in DistanceVals}

NoAverage(weights) ==
    [op |-> "none", weights |-> weights, X |-> <<>>, distance |-> <<>>,
     raw |-> <<>>, w |-> <<>>, pred |-> <<>>]

AVInit ==
    /\ avLast \in {NoAverage(weights) : weights \in Policies}
    /\ fd = NoFD /\ fdRes = NoRes
    /\ est = IdleNB /\ nbLast = IdleNB /\ nbHist = IdleNB
    /\ prCfg = IdlePR /\ prLast = IdlePR
    /\ scLast = IdleSC
    /\ sh = IdleSH /\ shLast = IdleSH /\ shPrev = IdleSH

PredictionFromNeighbors ==
    \E k \in 1..MaxNeighbors :
        \E distance \in [1..k -> Distances] :
            LET X == [j \in 1..k |-> TrainResponse(j)]
                r == prediction_from_neighbors(avLast.weights, X, distance)
            IN  /\ avLast' = [op |-> "average", weights |-> avLast.weights,
                              X |-> X, distance |-> distance,
                              raw |-> r.raw, w |-> r.w, pred |-> r.pred]
                /\ UNCHANGED <<fdVars, nbVars, prCfg, prLast, scVars, shVars>>

AVNext == PredictionFromNeighbors

SpecAverage == AVInit /\ [][AVNext]_vars

(* SpecPredict: a regressor fitted with functional responses predicts for   *)
(* one query after another.  The index answers a query of m samples with,   *)
(* for each sample, the distances to its neighbors and their indices.       *)

\* self._y: the responses stored by the fit
StoredResponses == [j \in 1..2 |-> TrainResponse(j)]

\* self._y[idx]
Take(y, idx) == [j \in 1..Len(idx) |-> y[idx[j] + 1]]

\* a regressor after a functional fit: its weights, its outlier_response (one
\* sample, or None) and its responses
FittedRegressor(weights, has_outlier) ==
    [weights |-> weights, has_outlier |-> has_outlier,
     outlier_response |-> IF has_outlier THEN << <<R(7), R(7)>> >> ELSE <<>>,
     y |-> StoredResponses]

Raises(e, index) == [outcome |-> e, index |-> index, pred |-> <<>>]

Returns(pred) == [outcome |-> "ok", index |-> <<>>, pred |-> pred]

\* np.where([len(n) == 0 for n in neighbors])[0], from position i on
RECURSIVE WhereEmpty(_, _)
WhereEmpty(neighbors, i) ==
    IF i > Len(neighbors) THEN <<>>
    ELSE (IF Len(neighbors[i]) = 0 THEN <<i - 1>> ELSE <<>>)
         \o WhereEmpty(neighbors, i + 1)

\* (mutant) an error that names the first sample without neighbors only
outlier_response_first(self, neighbors) ==
    IF ~self.has_outlier
    THEN Raises("ValueError", <<WhereEmpty(neighbors, 1)[1]>>)
    ELSE Returns(self.outlier_response)

\* NeighborsRegressorMixin._outlier_response
outlier_response(self, neighbors) ==
    IF ~self.has_outlier
    THEN Raises("ValueError", WhereEmpty(neighbors, 1))
    ELSE Returns(self.outlier_response)

\* the prediction for the sample at position p (from 1) of the query, made
\* with the distances at position q
predict_sample(self, distances, neighbors, p, q) ==
    IF Len(neighbors[p]) = 0
    THEN outlier_response(self, neighbors)
    ELSE Returns(<<prediction_from_neighbors(
                     self.weights, Take(self.y, neighbors[p]), distances[q]).pred>>)

\* (mutant) the loop reading distances[i] for the sample at i + 1; numpy
\* rejects weights that are not as many as the neighbors
RECURSIVE predict_rest_shifted(_, _, _, _, _)
predict_rest_shifted(self, distances, neighbors, i, pred) ==
    IF i + 2 > Len(neighbors) THEN Returns(pred)
    ELSE LET new_pred ==
                 IF Len(neighbors[i + 2]) # 0
                    /\ Len(neighbors[i + 2]) # Len(distances[i + 1])
                 THEN Raises("ValueError", <<>>)
                 ELSE predict_sample(self, distances, neighbors, i + 2, i + 1)
         IN  IF new_pred.outcome # "ok" THEN new_pred
             ELSE predict_rest_shifted(self, distances, neighbors, i + 1,
                                       pred \o new_pred.pred)

\* the loop of _functional_predict: enumerate(neighbors[1:]) from i on
RECURSIVE predict_rest(_, _, _, _, _)
predict_rest(self, distances, neighbors, i, pred) ==
    IF i + 2 > Len(neighbors) THEN Returns(pred)
    ELSE LET new_pred == predict_sample(self, distances, neighbors,
                                        i + 2, i + 2)
         IN  IF new_pred.outcome # "ok" THEN new_pred
             ELSE predict_rest(self, distances, neighbors, i + 1,
                               pred \o new_pred.pred)

\* (mutant) a prediction whose loop pairs each sample with the distances of
\* the one before
functional_predict_shifted(self, distances, neighbors) ==
    LET first == predict_sample(self, distances, neighbors, 1, 1)
    IN  IF first.outcome # "ok" THEN first
        ELSE predict_rest_shifted(self, distances, neighbors, 0, first.pred)

\* NeighborsRegressorMixin._functional_predict, from the answer of _query on
functional_predict_from(self, distances, neighbors) ==
    LET first == predict_sample(self, distances, neighbors, 1, 1)
    IN  IF first.outcome # "ok" THEN first
        ELSE predict_rest(self, distances, neighbors, 0, first.pred)

\* the neighborhoods the index answers with: indices into the stored
\* responses, none twice, each with its distance
Neighborhoods ==
    {[idx |-> idx, distance |-> d] :
        idx \in {<<>>, <<0>>, <<1>>, <<0, 1>>, <<1, 0>>},
        d \in SeqsOf(Distances, 0..2)}

PairedNeighborhoods ==
    {h \in Neighborhoods : Len(h.idx) = Len(h.distance)}

\* what _query returns for a query of 1..MaxQueries samples
Answers == SeqsOf(PairedNeighborhoods, 1..MaxQueries)

\* a call of predict whose query the index has answered with a
Answered(a) ==
    [op |-> "query",
     distances |-> [i \in 1..Len(a) |-> a[i].distance],
     neighbors |-> [i \in 1..Len(a) |-> a[i].idx],
     outcome |-> "none", index |-> <<>>, pred |-> <<>>]

PRInit ==
    /\ prCfg \in {FittedRegressor(weights, o) :
                    weights \in Policies, o \in BOOLEAN}
    /\ prLast \in {Answered(a) : a \in Answers}
    /\ avLast = IdlePR
    /\ fd = NoFD /\ fdRes = NoRes
    /\ est = IdleNB /\ nbLast = IdleNB /\ nbHist = IdleNB
    /\ scLast = IdleSC
    /\ sh = IdleSH /\ shLast = IdleSH /\ shPrev = IdleSH

FunctionalPredict ==
    /\ prLast.op = "query"
    /\ LET r == functional_predict_from(prCfg, prLast.distances,
                                        prLast.neighbors)
       IN  prLast' = [prLast EXCEPT !.op = "predict", !.outcome = r.outcome,
                                    !.index = r.index, !.pred = r.pred]
    /\ UNCHANGED <<fdVars, nbVars, avLast, prCfg, scVars, shVars>>

PRNext == FunctionalPredict

SpecPredict == PRInit /\ [][PRNext]_vars

-----------------------------------------------------------------------------
(* The functional score.  The responses are functions of one variable        *)
(* sampled at the three points 0, 1, 2 of a common grid.                     *)

\* the response c times the profile 1, 2, 0
ScaledProfile(c) == <<R(c), R(2 * c), R(0)>>

ResponseScales == 0..3

\* y - pred and y - y.mean(), sample by sample
Residuals(y, pred) ==
    [i \in 1..Len(y) |-> [k \in 1..Len(y[i]) |-> RSub(y[i][k], pred[i][k])]]

\* np.square(data, out=data)
Squares(data) ==
    [i \in 1..Len(data) |-> [k \in 1..Len(data[i]) |-> RMul(data[i][k], data[i][k])]]

\* data.T *= sample_weight: sample i is multiplied by weight i
Weighted(data, w) == [i \in 1..Len(data) |-> FScale(data[i], w[i])]

\* scipy.integrate.simps over the three grid points 0, 1, 2
simps(f) == RDiv(RAdd(f[1], RAdd(RMul(R(4), f[2]), f[3])), R(3))

\* what predict(X) does: it returns samples or raises
Predicted(outcome, samples) == [outcome |-> outcome, samples |-> samples]

Scored(outcome, value, steps) ==
    [outcome |-> outcome, value |-> value, steps |-> steps]

\* NeighborsRegressorMixin._functional_score, with pred what predict(X) does
functional_score(y, pred, sample_weight) ==
    IF y.dim_codomain # 1 \/ y.dim_domain # 1
    THEN Scored("ValueError", NaN, <<"check_dims">>)
    ELSE IF pred.outcome # "ok"
    THEN Scored(pred.outcome, NaN, <<"check_dims", "predict">>)
    ELSE LET data_u == Squares(Residuals(y.samples, pred.samples))
             y_mean == FMean(y.samples)
             data_v == Squares(Residuals(y.samples,
                                         [i \in 1..Len(y.samples) |-> y_mean]))
         IN  IF sample_weight.given /\ Len(sample_weight.w) # Len(y.samples)
             THEN Scored("ValueError", NaN,
                         <<"check_dims", "predict", "check_weights">>)
             ELSE LET total == RSum(sample_weight.w)
                      w == [i \in 1..Len(sample_weight.w) |->
                              RDiv(sample_weight.w[i], total)]
                      wu == IF sample_weight.given THEN Weighted(data_u, w)
                            ELSE data_u
                      wv == IF sample_weight.given THEN Weighted(data_v, w)
                            ELSE data_v
                      int_u == simps(FSum(wu))
                      int_v == simps(FSum(wv))
                  IN  Scored("ok", RSub(R(1), RDiv(int_u, int_v)),
                             IF sample_weight.given
                             THEN <<"check_dims", "predict", "check_weights">>
                             ELSE <<"check_dims", "predict">>)

(* SpecScore: score is called with test responses y and sample weights, on   *)
(* a regressor whose predict(X) returns as many samples as y or raises.      *)

SampleSets == SeqsOf({ScaledProfile(c) : c \in ResponseScales}, 1..MaxSamples)

\* the test responses: one variable in, one value out, or more of either
TestResponses ==
    {[dim_domain |-> 1, dim_codomain |-> 1, samples |-> f] : f \in SampleSets}
    \cup {[dim_domain |-> dd, dim_codomain |-> dc,
           samples |-> <<ScaledProfile(1)>>] : dd \in 1..2, dc \in 1..2}

Predictions(y) ==
    {Predicted("ok", f) : f \in {g \in SampleSets : Len(g) = Len(y.samples)}}
    \cup {Predicted("ValueError", <<>>), Predicted("NotFittedError", <<>>)}

SampleWeights ==
    {NoWeights}
    \cup {[given |-> TRUE, w |-> [i \in 1..Len(w) |-> R(w[i])]] :
            w \in SeqsOf(0..2, 1..MaxSamples)}

ScoreCall(y, pred, sample_weight) ==
    [op |-> "call", y |-> y, pred |-> pred, sample_weight |-> sample_weight,
     outcome |-> "none", value |-> NaN, steps |-> <<>>]

SCInit ==
    /\ scLast \in {ScoreCall(c[1], c[2], c[3]) :
                     c \in UNION {{<<y, pred, sw>> : pred \in Predictions(y),
                                                   sw \in SampleWeights} :
                                    y \in TestResponses}}
    /\ fd = NoFD /\ fdRes = NoRes
    /\ est = IdleNB /\ nbLast = IdleNB /\ nbHist = IdleNB
    /\ avLast = IdlePR /\ prCfg = IdlePR /\ prLast = IdlePR
    /\ sh = IdleSH /\ shLast = IdleSH /\ shPrev = IdleSH

FunctionalScore ==
    /\ scLast.op = "call"
    /\ LET r == functional_score(scLast.y, scLast.pred, scLast.sample_weight)
       IN  scLast' = [scLast EXCEPT !.op = "score", !.outcome = r.outcome,
                                    !.value = r.value, !.steps = r.steps]
    /\ UNCHANGED <<fdVars, nbVars, prVars, shVars>>

SCNext == FunctionalScore

SpecScore == SCInit /\ [][SCNext]_vars

-----------------------------------------------------------------------------
(* Claims on FDataBasis (SpecFD) *)

\* the column count of a constructor argument once a scalar or a vector is
\* promoted to a single row
PromotedColumns(a) ==
    IF ndim(a) = 0 THEN 1 ELSE IF ndim(a) = 1 THEN a.shape[1] ELSE a.shape[2]

PromotedRows(a) == IF ndim(a) = 2 THEN a.shape[1] ELSE 1

WellShaped(o) ==
    /\ ndim(o.coefficients) = 2
    /\ o.coefficients.shape[2] = o.basis.n_basis
    /\ Len(o.coefficients.data) = o.coefficients.shape[1]
    /\ \A i \in 1..Len(o.coefficients.data) :
          Len(o.coefficients.data[i]) = o.basis.n_basis

\* C1: every instance, built by the constructor or returned by copy, indexing,
\* mean, concatenate, multiplication by numbers or derivative, has a 2-d
\* coefficient matrix with basis.n_basis columns (a vector becomes one row); a
\* constructor call with another column count raises ValueError and leaves no
\* instance.
C1_CoefficientsMatchBasis ==
    /\ \A o \in Instances : WellShaped(o)
    /\ fdRes.outcome = "instance" <=> fdRes.obj.live
    /\ fdRes.op = "init" =>
         IF PromotedColumns(fdRes.arg) # fdRes.basis.n_basis
         THEN fdRes.outcome = "ValueError" /\ ~fdRes.obj.live
         ELSE /\ fdRes.outcome = "instance"
              /\ n_samples(fdRes.obj) = PromotedRows(fdRes.arg)

\* a mean of two samples over a basis of two functions: the vector of column
\* means has become the one row of a new instance
C1_Witness ==
    /\ fdRes.op = "mean" /\ fdRes.outcome = "instance"
    /\ n_samples(fd) = 2 /\ fd.basis.n_basis = 2
    /\ fdRes.obj.coefficients.shape = <<1, 2>>

-----------------------------------------------------------------------------
(* Claims on the neighbors estimators (SpecNB) *)

QueryOps == {"kneighbors", "kneighbors_graph", "radius_neighbors",
             "radius_neighbors_graph", "predict"}

Took(step) == \E i \in 1..Len(nbLast.steps) : nbLast.steps[i] = step

\* C2: while no fit has succeeded on the estimator, each of the four neighbor
\* queries and predict (classifier or regressor) ends in the not-fitted error
\* and has done nothing but the fitted check: the input is not transformed and
\* nothing is asked of the index.
C2_NotFittedBeforeAnything ==
    (nbLast.op \in QueryOps /\ ~nbHist.anySuccess) =>
        /\ nbLast.outcome = "NotFittedError"
        /\ nbLast.steps = <<"check_is_fitted">>

\* a query after a fit that created the index and then failed in the index's fit
C2_Witness ==
    /\ nbLast.op = "kneighbors" /\ ~nbHist.anySuccess
    /\ est.has_estimator_ /\ ~est.estimator_.fitted
    /\ Took("transform") /\ Took("delegate")

\* C3: on a regressor whose latest fit succeeded, predict and score take the
\* path of that fit's response type: for a functional response the neighbor
\* query and the average of the stored responses (and the functional R2 for
\* score), for a numeric one the index's own predict (and sklearn's R2).
C3_DispatchOnLatestFit ==
    (est.kind = "regressor" /\ nbLast.op \in {"predict", "score"}
        /\ nbHist.lastFitOk) =>
        /\ nbLast.outcome = "ok"
        /\ IF nbHist.y.functional
           THEN /\ nbLast.dispatch = "functional"
                /\ Took("responses")
                /\ nbLast.usedY = nbHist.y
                /\ nbLast.op = "score" =>
                     nbLast.steps[Len(nbLast.steps)] = "functional_r2"
           ELSE /\ nbLast.dispatch = "multivariate"
                /\ ~Took("responses")
                /\ nbLast.steps[Len(nbLast.steps)] =
                     (IF nbLast.op = "score" THEN "r2_score" ELSE "delegate")

\* a numeric score on a regressor that still holds responses of an earlier
\* functional fit
C3_Witness ==
    /\ est.kind = "regressor" /\ nbLast.op = "score" /\ nbHist.lastFitOk
    /\ ~nbHist.y.functional /\ est.has_y
    /\ nbLast.dispatch = "multivariate"

\* C4: when the latest fit succeeded and the metric is not "precomputed", the
\* index is fitted on that fit's training data, the grid points and the shape
\* are those of that data, the responses of a functional fit are that fit's,
\* and what a query or prediction is computed from is that data only.
C4_FitReplacesState ==
    (nbHist.lastFitOk /\ est.metric # "precomputed") =>
        /\ est.has_estimator_ /\ est.estimator_.fitted
        /\ est.estimator_.X.id = nbHist.X.id
        /\ est.estimator_.X.n = nbHist.X.n
        /\ est.has_grid_points
        /\ est.grid_points = grid_points(nbHist.X)
        /\ est.shape = data_shape(nbHist.X)
        /\ est.estimator_.metric = "adapter" =>
             est.estimator_.grid = grid_points(nbHist.X)
        /\ nbHist.y.functional => est.has_y /\ est.y = nbHist.y
        /\ est.estimator_.metric = "precomputed" =>
             est.has_fit_X /\ est.fit_X = nbHist.X
        /\ (nbLast.op # "fit" /\ nbLast.outcome = "ok") =>
             /\ nbLast.usedX.id = nbHist.X.id
             /\ nbLast.usedX.n = nbHist.X.n
             /\ nbLast.usedY.given => nbLast.usedY = nbHist.y

\* a functional prediction after fits on two different training sets
C4_Witness ==
    /\ est.kind = "regressor" /\ est.metric = "l2"
    /\ est.has_fit_X /\ est.fit_X.id # nbHist.X.id
    /\ nbHist.lastFitOk /\ nbHist.y.functional
    /\ nbLast.op = "predict" /\ nbLast.outcome = "ok"
    /\ nbLast.usedY.id = nbHist.y.id

\* C5: a fit with a functional response whose sample count differs from
\* len(X) raises ValueError having only compared the lengths: the call leaves
\* the index (present or not, fitted or not) and the stored responses as they
\* were.
C5_LengthCheckFirst ==
    [][(nbLast'.op = "fit" /\ nbLast'.y.functional
          /\ nbLast'.X.n # nbLast'.y.n) =>
         /\ nbLast'.outcome = "ValueError"
         /\ nbLast'.steps = <<"check_length">>
         /\ est'.has_estimator_ = est.has_estimator_
         /\ est'.estimator_ = est.estimator_
         /\ est'.has_y = est.has_y
         /\ est'.y = est.y]_vars

\* a rejected functional fit on an estimator fitted before on other data
C5_Witness ==
    /\ nbLast.op = "fit" /\ nbLast.y.functional /\ nbLast.X.n # nbLast.y.n
    /\ nbLast.outcome = "ValueError"
    /\ est.has_estimator_ /\ est.estimator_.fitted
    /\ est.estimator_.X.id # nbLast.X.id

-----------------------------------------------------------------------------
(* Claims on the functional prediction (SpecPredict, SpecAverage) *)

\* the positions (from 0) of the query samples without neighbors
Outliers == {i \in 1..Len(prLast.neighbors) : Len(prLast.neighbors[i]) = 0}

\* C6: a functional prediction for a query with a sample that has no
\* neighbor, on a regressor without outlier response, raises ValueError, the
\* error names the position of every sample without neighbors, each once, and
\* no prediction is returned.
C6_AllOutliersNamed ==
    (prLast.op = "predict" /\ ~prCfg.has_outlier /\ Outliers # {}) =>
        /\ prLast.outcome = "ValueError"
        /\ {prLast.index[j] + 1 : j \in 1..Len(prLast.index)} = Outliers
        /\ Len(prLast.index) = Cardinality(Outliers)
        /\ prLast.pred = <<>>

\* an error for a query whose first sample has neighbors and whose second
\* has none
C6_Witness ==
    /\ prLast.op = "predict" /\ ~prCfg.has_outlier
    /\ Len(prLast.neighbors) = 2
    /\ Outliers = {2}
    /\ prLast.outcome = "ValueError"
    /\ prLast.index = <<1>>

\* the weights by which a policy averages neighbors at distances d: equal
\* ones, the reciprocal distances over their sum (or an equal share for the
\* neighbors at distance 0, if there are any), or the callable's over their sum
Share(raw) == [j \in 1..Len(raw) |-> RDiv(raw[j], RSum(raw))]

WeightsFor(weights, d) ==
    IF weights.kind = "uniform" THEN [j \in 1..Len(d) |-> RNorm(1, Len(d))]
    ELSE IF weights.kind = "callable" THEN Share(apply_weights(weights.f, d))
    ELSE IF \E j \in 1..Len(d) : d[j] = R(0)
    THEN LET z == Cardinality({j \in 1..Len(d) : d[j] = R(0)})
         IN  [j \in 1..Len(d) |-> IF d[j] = R(0) THEN RNorm(1, z) ELSE R(0)]
    ELSE Share([j \in 1..Len(d) |-> RNorm(d[j][2], d[j][1])])

\* the sum of the samples X[j] times w[j], value by value
RECURSIVE WeightedValue(_, _, _, _)
WeightedValue(X, w, k, j) ==
    IF j > Len(X) THEN R(0)
    ELSE RAdd(RMul(X[j][k], w[j]), WeightedValue(X, w, k, j + 1))

WeightedAverage(X, w) == [k \in 1..Len(X[1]) |-> WeightedValue(X, w, k, 1)]

\* C7: with an outlier response configured, a functional prediction for a
\* query of m samples returns m samples: sample i is the outlier response if
\* query sample i has no neighbors, and else the average of the stored
\* responses at its neighbor indices under the weights its own distances give.
C7_PredictionPerSample ==
    (prLast.op = "predict" /\ prCfg.has_outlier) =>
        /\ prLast.outcome = "ok"
        /\ Len(prLast.pred) = Len(prLast.neighbors)
        /\ \A i \in 1..Len(prLast.neighbors) :
             prLast.pred[i] =
                IF Len(prLast.neighbors[i]) = 0
                THEN prCfg.outlier_response[1]
                ELSE WeightedAverage(
                        [j \in 1..Len(prLast.neighbors[i]) |->
                            prCfg.y[prLast.neighbors[i][j] + 1]],
                        WeightsFor(prCfg.weights, prLast.distances[i]))

\* a prediction whose second sample is nearer to its second neighbor, after a
\* first sample that is nearer to its first
C7_Witness ==
    /\ prLast.op = "predict" /\ prCfg.has_outlier
    /\ prCfg.weights.kind = "distance"
    /\ prLast.neighbors = << <<0, 1>>, <<0, 1>> >>
    /\ prLast.distances = << <<R(1), R(5)>>, <<R(5), R(1)>> >>
    /\ prLast.pred = << <<RNorm(7, 6), RNorm(3, 2)>>, <<RNorm(11, 6), RNorm(7, 2)>> >>

\* C8: under weights = "distance" the weights an average sums with are: an
\* equal share 1/z for the z neighbors at distance 0 and 0 for the others, if
\* z > 0; else the reciprocal distances over their sum.  They are finite for
\* every non-empty distance array, and distances [0, 0, 5] give [1/2, 1/2, 0].
C8_DistanceWeights ==
    (avLast.op = "average" /\ avLast.weights.kind = "distance") =>
        LET d == avLast.distance
            zero == {i \in 1..Len(d) : d[i] = R(0)}
            reciprocal == [i \in 1..Len(d) |-> RDiv(R(1), d[i])]
        IN  /\ Len(avLast.w) = Len(d)
            /\ \A i \in 1..Len(d) :
                 /\ IsFinite(avLast.raw[i]) /\ IsFinite(avLast.w[i])
                 /\ avLast.w[i] =
                      IF zero # {}
                      THEN (IF i \in zero THEN RNorm(1, Cardinality(zero))
                            ELSE R(0))
                      ELSE RDiv(reciprocal[i], RSum(reciprocal))
            /\ d = <<R(0), R(0), R(5)>> =>
                 avLast.w = <<RNorm(1, 2), RNorm(1, 2), R(0)>>

\* the average for distances [0, 0, 5]
C8_Witness ==
    /\ avLast.op = "average" /\ avLast.weights.kind = "distance"
    /\ avLast.distance = <<R(0), R(0), R(5)>>
    /\ avLast.w = <<RNorm(1, 2), RNorm(1, 2), R(0)>>
    /\ avLast.pred = <<RNorm(3, 2), RNorm(5, 2)>>

\* C9: whatever the weights policy, the average is a sum with weights that
\* add up to 1: under "uniform" it is the plain mean, the sum with weights
\* 1/k; a callable is given the distances of the query as they are and what
\* it returns is divided by its sum before the responses are summed with it.
C9_WeightsSumToOne ==
    avLast.op = "average" =>
        /\ avLast.weights.kind = "uniform" =>
             avLast.pred =
                WeightedAverage(avLast.X,
                    [j \in 1..Len(avLast.X) |-> RNorm(1, Len(avLast.X))])
        /\ avLast.weights.kind = "callable" =>
             /\ avLast.raw = apply_weights(avLast.weights.f, avLast.distance)
             /\ avLast.w = Share(avLast.raw)
             /\ avLast.pred = WeightedAverage(avLast.X, avLast.w)
        /\ avLast.weights.kind # "uniform" => RSum(avLast.w) = R(1)

\* a kernel that gives weight 0 to every neighbor of the query: the weights
\* the average sums with are not numbers
C9_Witness ==
    /\ avLast.op = "average" /\ avLast.weights = Policy("callable", "kernel")
    /\ avLast.distance = <<R(1), R(5)>>
    /\ avLast.raw = <<R(0), R(0)>>
    /\ avLast.w = <<NaN, NaN>>
    /\ avLast.pred = <<NaN, NaN>>

-----------------------------------------------------------------------------
(* Claims on the functional score (SpecScore) *)

\* a score of responses of one variable and one value, with sample weights, if
\* any, one for each response, whose prediction is the responses themselves
PerfectPrediction ==
    /\ scLast.op = "score"
    /\ scLast.y.dim_domain = 1 /\ scLast.y.dim_codomain = 1
    /\ scLast.pred.outcome = "ok"
    /\ scLast.pred.samples = scLast.y.samples
    /\ scLast.sample_weight.given =>
         Len(scLast.sample_weight.w) = Len(scLast.y.samples)

\* C10: the functional score of a prediction that equals the test responses
\* sample for sample is 1.0, with sample weights or without.
C10_PerfectScoreIsOne ==
    PerfectPrediction => scLast.outcome = "ok" /\ scLast.value = R(1)

\* one test response, predicted exactly and scored without weights: the score
\* is 1 - 0/0
C10_Witness ==
    /\ PerfectPrediction
    /\ Len(scLast.y.samples) = 1
    /\ ~scLast.sample_weight.given
    /\ scLast.outcome = "ok"
    /\ scLast.value = NaN

\* the mean of the samples y under the weights w, value by value
WeightedMean(y, w) ==
    [k \in 1..Len(y[1]) |-> RDiv(WeightedValue(y, w, k, 1), RSum(w))]

\* a score with a sample weight for each response, not all 0, of responses
\* that are not all the same, whose prediction is for every sample the mean of
\* the responses under those weights
WeightedMeanPrediction ==
    /\ scLast.op = "score"
    /\ scLast.y.dim_domain = 1 /\ scLast.y.dim_codomain = 1
    /\ scLast.sample_weight.given
    /\ Len(scLast.sample_weight.w) = Len(scLast.y.samples)
    /\ RSum(scLast.sample_weight.w) # R(0)
    /\ \E i \in 1..Len(scLast.y.samples) :
          scLast.y.samples[i] # scLast.y.samples[1]
    /\ scLast.pred.outcome = "ok"
    /\ \A i \in 1..Len(scLast.pred.samples) :
          scLast.pred.samples[i] =
             WeightedMean(scLast.y.samples, scLast.sample_weight.w)

\* C11: with sample weights, the functional score of a prediction that is for
\* every test sample the weighted mean of the test responses is 0.0.
C11_WeightedMeanScoresZero ==
    WeightedMeanPrediction => scLast.outcome = "ok" /\ scLast.value = R(0)

\* responses 0 and 3 times the profile with weights 2 and 1, predicted as
\* their weighted mean 1: the score is 1 - 2 / (9/4)
C11_Witness ==
    /\ WeightedMeanPrediction
    /\ scLast.y.samples = <<ScaledProfile(0), ScaledProfile(3)>>
    /\ scLast.sample_weight.w = <<R(2), R(1)>>
    /\ scLast.pred.samples = <<ScaledProfile(1), ScaledProfile(1)>>
    /\ scLast.value = RNorm(1, 9)

\* a score whose sample weights are not as many as the test responses
WeightLengthMismatch ==
    /\ scLast.op = "score"
    /\ scLast.y.dim_domain = 1 /\ scLast.y.dim_codomain = 1
    /\ scLast.sample_weight.given
    /\ Len(scLast.sample_weight.w) # Len(scLast.y.samples)

\* C12: a functional score with sample weights that are not as many as the
\* test responses raises ValueError before it asks for a prediction, whether
\* predict would return or raise.
C12_WeightLengthCheckedFirst ==
    WeightLengthMismatch =>
        /\ scLast.outcome = "ValueError"
        /\ \A i \in 1..Len(scLast.steps) : scLast.steps[i] # "predict"

\* the error of the prediction reaches the caller in place of the ValueError
\* for the weights
C12_Witness ==
    /\ WeightLengthMismatch
    /\ scLast.pred.outcome = "NotFittedError"
    /\ scLast.outcome = "NotFittedError"
    /\ scLast.steps = <<"check_dims", "predict">>

-----------------------------------------------------------------------------
(* Claims on the operations of FDataBasis (SpecFD) *)

\* the last step was a method call on an instance
MethodCalled == fdRes.op \notin {"none", "init"} /\ fdRes.wrote = "none"

Selected(key, n) ==
    CASE key.kind = "int" -> << IF key.k < 0 THEN key.k + n ELSE key.k >>
      [] key.kind = "slice" ->
           [i \in 1..((IF key.hi < n THEN key.hi ELSE n) - key.lo) |-> key.lo + i - 1]
      [] OTHER -> key.idx

KeyInRange(key, n) ==
    CASE key.kind = "int" -> 0 - n <= key.k /\ key.k < n
      [] key.kind = "slice" -> key.lo < n
      [] OTHER -> \A i \in 1..Len(key.idx) : key.idx[i] < n

Indexed ==
    /\ fdRes.op = "getitem" /\ fdRes.outcome = "instance"
    /\ KeyInRange(fdRes.key, n_samples(fdRes.self))

Summed == fdRes.op \in {"add", "sub"} /\ fdRes.wrote = "none"

\* C15: + and - of two instances return an instance only when the bases are
\* equal, and it then holds what the basis's same-basis rule answered; when the
\* bases differ the result is NotImplemented, nothing is raised and no rule is
\* asked for coefficients; when the operand is not functional and the basis's
\* constant rule raises TypeError the result is NotImplemented as well
C15_SumNeedsEqualBases ==
    Summed =>
        IF Len(fdRes.others) = 1
        THEN LET other == fdRes.others[1]
             IN  /\ fdRes.self.basis # other.basis =>
                       fdRes.outcome = "NotImplemented" /\ fdRes.called = "none"
                 /\ fdRes.outcome = "instance" =>
                       /\ fdRes.self.basis = other.basis
                       /\ fdRes.called = "same_basis" /\ fdRes.rule.outcome = "ok"
                       /\ fdRes.ret.basis = fdRes.rule.basis
                       /\ fdRes.ret.coefficients.data = fdRes.rule.coefficients.data
        ELSE fdRes.rule.outcome = "TypeError" =>
                 fdRes.outcome = "NotImplemented" /\ fdRes.called = "constant"

\* two samples over a basis of two functions minus two over a basis of one
C15_Witness ==
    /\ Summed /\ fdRes.op = "sub" /\ Len(fdRes.others) = 1
    /\ fdRes.self.basis.n_basis = 2 /\ fdRes.others[1].basis.n_basis = 1
    /\ n_samples(fdRes.self) = 2 /\ n_samples(fdRes.others[1]) = 2
    /\ fdRes.outcome = "NotImplemented" /\ fdRes.called = "none" /\ ~fdRes.obj.live

\* the last step was self * other with other an instance; the bases of the
\* model are all over one domain
MultipliedByInstance ==
    fdRes.op = "mul" /\ Len(fdRes.others) = 1 /\ fdRes.wrote = "none"

\* C16: self * other with other an instance over the same domain returns an
\* instance, the pointwise product refitted in the product basis; a single
\* sample is broadcast, so the product has max(n_samples1, n_samples2) samples
C16_ProductOfInstances ==
    MultipliedByInstance =>
        LET n1 == n_samples(fdRes.self)
            n2 == n_samples(fdRes.others[1])
        IN  (n1 = n2 \/ n1 = 1 \/ n2 = 1) =>
                /\ fdRes.outcome = "instance"
                /\ fdRes.ret.id = "new"
                /\ n_samples(fdRes.ret) = IF n1 > n2 THEN n1 ELSE n2

\* two samples times one sample over the same basis: not supported
C16_Witness ==
    /\ MultipliedByInstance
    /\ fdRes.self.basis = fdRes.others[1].basis
    /\ n_samples(fdRes.self) = 2 /\ n_samples(fdRes.others[1]) = 1
    /\ fdRes.outcome = "NotImplemented" /\ ~fdRes.ret.live
    /\ fdRes.called = "none"

\* the last step was self / other or other / self
Divided == fdRes.op \in {"truediv", "rtruediv"} /\ fdRes.wrote = "none"

\* the divisor of self / other is a number or a list of numbers
NumericDivisor ==
    fdRes.op = "truediv" /\ fdRes.others = <<>> /\ fdRes.number.kind # "str"

\* C17: self / c with c a number or one number per sample is self * (1 / c):
\* row i of the coefficients times the reciprocal of the i-th number; other /
\* self, whatever other is, and self / other with other an instance give
\* NotImplemented and no instance
C17_DivisionByReciprocal ==
    Divided =>
        IF NumericDivisor
        THEN LET c == fdRes.number.v
                 n == n_samples(fdRes.self)
             IN  /\ Len(c) \in {1, n} => fdRes.outcome = "instance"
                 /\ fdRes.outcome = "instance" =>
                       /\ fdRes.ret.basis = fdRes.self.basis
                       /\ fdRes.ret.coefficients.data =
                             [i \in 1..n |->
                                [k \in 1..fdRes.self.basis.n_basis |->
                                   RMul(fdRes.self.coefficients.data[i][k],
                                        RDiv(R(1), c[IF Len(c) = 1 THEN 1 ELSE i]))]]
        ELSE (fdRes.op = "rtruediv" \/ Len(fdRes.others) = 1) =>
                 fdRes.outcome = "NotImplemented" /\ ~fdRes.ret.live

\* two samples divided by [1, 2]: the second row is halved
C17_Witness ==
    /\ Divided /\ NumericDivisor
    /\ fdRes.number.v = <<R(1), R(2)>>
    /\ fdRes.self.coefficients.data = <<Row(1, 2), Row(0, 2)>>
    /\ fdRes.outcome = "instance"
    /\ fdRes.ret.coefficients.data = <<Row(1, 2), <<R(0), RNorm(1, 2)>> >>

\* the last step was self.concatenate(*others)
Concatenated ==
    fdRes.op = "concatenate" /\ ~fdRes.as_coordinates /\ fdRes.wrote = "none"

\* the samples of the first a - 1 of others
RECURSIVE SamplesBefore(_, _)
SamplesBefore(others, a) ==
    IF a = 1 THEN 0 ELSE n_samples(others[a - 1]) + SamplesBefore(others, a - 1)

\* C18: concatenate on instances over the receiver's basis returns an instance
\* with as many samples as all of them together, whose coefficient rows and
\* sample names are the receiver's followed by those of each argument in the
\* order of the arguments; when an argument has another basis it raises
\* ValueError and returns nothing
C18_ConcatenateStacksSamples ==
    Concatenated =>
        LET self   == fdRes.self
            others == fdRes.others
            n      == n_samples(self)
        IN  IF \A a \in 1..Len(others) : others[a].basis = self.basis
            THEN /\ fdRes.outcome = "instance"
                 /\ fdRes.ret.basis = self.basis
                 /\ n_samples(fdRes.ret) = n + SamplesBefore(others, Len(others) + 1)
                 /\ Len(fdRes.ret.coefficients.data) = n_samples(fdRes.ret)
                 /\ Len(fdRes.ret.sample_names) = n_samples(fdRes.ret)
                 /\ \A i \in 1..n :
                      /\ fdRes.ret.coefficients.data[i] = self.coefficients.data[i]
                      /\ fdRes.ret.sample_names[i] = self.sample_names[i]
                 /\ \A a \in 1..Len(others) : \A i \in 1..n_samples(others[a]) :
                      LET at == n + SamplesBefore(others, a) + i
                      IN  /\ fdRes.ret.coefficients.data[at] = others[a].coefficients.data[i]
                          /\ fdRes.ret.sample_names[at] = others[a].sample_names[i]
            ELSE fdRes.outcome = "ValueError" /\ ~fdRes.ret.live

\* two named samples, then one sample, then two samples: five samples
C18_Witness ==
    /\ Concatenated /\ Len(fdRes.others) = 2
    /\ fdRes.self.basis.n_basis = 2
    /\ fdRes.self.sample_names = Named(2)
    /\ n_samples(fdRes.others[1]) = 1 /\ n_samples(fdRes.others[2]) = 2
    /\ fdRes.outcome = "instance" /\ n_samples(fdRes.ret) = 5
    /\ fdRes.ret.sample_names =
          Named(2) \o << <<"None", 0>>, <<"None", 0>>, <<"None", 0>> >>
    /\ fdRes.ret.coefficients.data =
          fdRes.self.coefficients.data \o <<Row(1, 2), Row(1, 2), Row(0, 2)>>

\* the exceptions that tell a caller its data is not supported or not valid
DataErrors == {"ValueError", "TypeError", "NotImplementedError"}

\* C19: concatenate with as_coordinates=True ends in a raised error and hands
\* back no value; PhasePlanePlot.plot of two instances, each of one variable
\* and one coordinate, ends in a raised error that tells the data is not
\* supported or not valid
C19_CoordinatesUnsupported ==
    /\ fdRes.op = "concatenate" /\ fdRes.as_coordinates =>
          fdRes.outcome \in DataErrors
    /\ fdRes.op = "plot" /\ Len(fdRes.others) = 1 =>
          fdRes.outcome \in DataErrors

\* the plot of two instances: concatenate handed back NotImplemented and the
\* plot ended in AttributeError
C19_Witness ==
    /\ fdRes.op = "plot" /\ Len(fdRes.others) = 1
    /\ fdRes.self.basis = fdRes.others[1].basis
    /\ n_samples(fdRes.self) = 1 /\ n_samples(fdRes.others[1]) = 1
    /\ fdRes.called = "NotImplemented"
    /\ fdRes.outcome = "AttributeError"

\* the last step was self == other
Compared == fdRes.op = "eq"

\* C20: self == other raises TypeError when other is no FDataBasis or has
\* another basis, whatever the lengths; raises ValueError when the types agree
\* and the numbers of samples differ; and otherwise returns one boolean per
\* sample, true exactly when the two coefficient rows agree in every column
C20_ElementwiseEquality ==
    Compared =>
        IF fdRes.others = <<>> \/ fdRes.others[1].basis # fdRes.self.basis
        THEN fdRes.outcome = "TypeError"
        ELSE LET self  == fdRes.self
                 other == fdRes.others[1]
             IN  IF n_samples(self) # n_samples(other)
                 THEN fdRes.outcome = "ValueError"
                 ELSE /\ fdRes.outcome = "array"
                      /\ Len(fdRes.value) = n_samples(self)
                      /\ \A i \in 1..n_samples(self) :
                           fdRes.value[i] <=>
                              self.coefficients.data[i] = other.coefficients.data[i]

\* [[1, 0], [0, 1]] == [[1, 0], [1, 1]]: the first sample is equal, the second
\* agrees in one column only
C20_Witness ==
    /\ Compared /\ Len(fdRes.others) = 1
    /\ fdRes.self.coefficients.data = <<Row(1, 2), Row(0, 2)>>
    /\ fdRes.others[1].coefficients.data = <<Row(1, 2), <<R(1), R(1)>> >>
    /\ fdRes.outcome = "array" /\ fdRes.value = <<TRUE, FALSE>>

\* the last step was a call of mean()
MeanTaken == fdRes.op = "mean" /\ fdRes.wrote = "none"

\* the sum of column k of the rows of c, row i taken w[i] times
ColumnTotal(c, w, k) ==
    RSum([i \in 1..Len(c.data) |-> RMul(w[i], c.data[i][k])])

\* weights for which a weighted mean of n samples exists
MeanDefined(w, n) == Len(w) = n /\ RSum(w) # R(0)

\* C21: mean() returns a new instance over the receiver's basis with the one
\* sample named "mean", whose k-th coefficient is the arithmetic mean of column
\* k of the receiver's coefficients, or with weights their weighted arithmetic
\* mean; no basis rule is called; it fails only for weights that have no
\* weighted mean (one weight per sample, sum not zero)
C21_MeanOfCoefficients ==
    MeanTaken =>
        LET self == fdRes.self
            n    == n_samples(self)
            K    == self.basis.n_basis
            w    == IF fdRes.number.kind = "weights" THEN fdRes.number.v
                    ELSE [i \in 1..n |-> R(1)]
        IN  /\ n >= 1
            /\ fdRes.called = "none"
            /\ fdRes.outcome = "instance" <=> MeanDefined(w, n)
            /\ fdRes.outcome = "instance" =>
                 /\ fdRes.obj.basis = self.basis
                 /\ fdRes.obj.id = "new"
                 /\ fdRes.obj.coefficients.shape = <<1, K>>
                 /\ fdRes.obj.sample_names = << <<"mean", 0>> >>
                 /\ \A k \in 1..K :
                      fdRes.obj.coefficients.data[1][k] =
                          RDiv(ColumnTotal(self.coefficients, w, k), RSum(w))

C21_Witness ==
    /\ MeanTaken /\ fdRes.outcome = "instance"
    /\ fdRes.number.kind = "weights" /\ fdRes.number.v = <<R(1), R(0)>>
    /\ fdRes.self.coefficients.data = <<Row(0, 2), Row(1, 2)>>
    /\ fdRes.obj.coefficients.data = <<Row(0, 2)>>

\* the last step was a call of derivative()
Differentiated == fdRes.op = "derivative" /\ fdRes.wrote = "none"

\* a float that is a whole number not below zero
NonNegativeInteger(x) == x[2] = 1 /\ x[1] >= 0

\* C22: derivative(order) raises ValueError for every order that is not a
\* non-negative integer, without calling the derivative rule of the basis;
\* order 0 returns a copy equal to the receiver; the rule is called only with
\* a positive integer order
C22_DerivativeOrder ==
    Differentiated =>
        LET order == fdRes.number.v[1]
        IN  /\ ~NonNegativeInteger(order) =>
                 fdRes.outcome = "ValueError" /\ fdRes.called = "none"
            /\ order = R(0) =>
                 /\ fdRes.outcome = "instance" /\ fdRes.called = "none"
                 /\ fdRes.obj.basis = fdRes.self.basis
                 /\ fdRes.obj.coefficients.data = fdRes.self.coefficients.data
                 /\ fdRes.obj.sample_names = fdRes.self.sample_names
            /\ fdRes.called # "none" => NonNegativeInteger(order) /\ order # R(0)

\* the order 1/2 reaches the rule, and the call returns what the rule made
C22_Witness ==
    /\ Differentiated
    /\ fdRes.number.v[1] = <<1, 2>>
    /\ fdRes.called = "derivative_basis_and_coefs"
    /\ fdRes.outcome = "instance"

-----------------------------------------------------------------------------
(* Claims on the fit modes of the neighbors estimators (SpecNB) *)

\* C24: on a classifier with precompute_metric=True whose latest fit
\* succeeded, whatever metric and multivariate_metric are, the training data
\* of that fit are retained, and a predict finds them, computes the distances
\* of the query to them and hands that matrix to the index
C24_PrecomputePredictsFromCopy ==
    (est.kind = "classifier" /\ est.precompute_metric /\ nbHist.lastFitOk) =>
        /\ est.has_fit_X /\ est.fit_X = nbHist.X
        /\ nbLast.op = "predict" =>
             /\ nbLast.outcome = "ok"
             /\ Took("pairwise")
             /\ nbLast.given = Matrix("distances", nbLast.X)

\* a predict on a fitted classifier with precompute_metric and
\* multivariate_metric both set: there is no retained copy
C24_Witness ==
    /\ est.kind = "classifier" /\ est.metric = "l2"
    /\ est.precompute_metric /\ est.multivariate_metric
    /\ nbHist.lastFitOk /\ ~est.has_fit_X
    /\ nbLast.op = "predict" /\ nbLast.outcome = "AttributeError"

\* the index was fitted in the precompute_metric branch of fit
PrecomputeFitted ==
    /\ est.has_estimator_ /\ est.estimator_.fitted
    /\ est.estimator_.metric = "precomputed"
    /\ est.estimator_.X.form = "zeros"

\* C25: once the index has been fitted in the precompute_metric branch, what a
\* neighbor query, a predict or a score hands to it is a matrix of distances
\* from the query to the training data, never the flattened curves
C25_PrecomputedIndexGetsDistances ==
    (PrecomputeFitted /\ nbLast.op \in QueryOps \cup {"score"} /\ Took("delegate")) =>
        nbLast.given.form = "distances"

\* kneighbors on a classifier fitted with precompute_metric=True
C25_Witness ==
    /\ PrecomputeFitted /\ est.kind = "classifier" /\ nbHist.lastFitOk
    /\ nbLast.op = "kneighbors" /\ nbLast.outcome = "ok"
    /\ nbLast.given = Matrix("flat", nbLast.X)

\* the places of a step among the steps of the last call
Places(step) == {i \in 1..Len(nbLast.steps) : nbLast.steps[i] = step}

\* C26: a fit that succeeds with a metric other than "precomputed" runs the
\* fit step of the metric before it fits the index, and fits the index once
C26_MetricFittedBeforeIndex ==
    (nbLast.op = "fit" /\ nbLast.outcome = "ok" /\ est.metric # "precomputed") =>
        /\ Cardinality(Places("fit_index")) = 1
        /\ \E i \in Places("fit_metric") : \A j \in Places("fit_index") : i < j

\* a fit with a functional response: the index is fitted, the metric is not
C26_Witness ==
    /\ nbLast.op = "fit" /\ nbLast.outcome = "ok" /\ est.metric = "l2"
    /\ est.kind = "regressor" /\ nbLast.y.functional
    /\ Places("fit_index") = {4} /\ Places("fit_metric") = {}

\* no fit has been called on the regressor: fit assigns _functional in its
\* first statement and estimator_ before it fits the index
NoFitCalled ==
    /\ est.kind = "regressor" /\ ~nbHist.anySuccess
    /\ est.functional = "unset" /\ ~est.has_estimator_

\* C27: score on a regressor on which fit has not been called ends in the
\* not-fitted error, as predict does
C27_ScoreNotFitted ==
    (NoFitCalled /\ nbLast.op \in {"score", "predict"}) =>
        nbLast.outcome = "NotFittedError"

C27_Witness ==
    /\ NoFitCalled /\ nbLast.op = "score"
    /\ nbLast.outcome = "AttributeError" /\ nbLast.steps = <<"read_functional">>

\* C30: a fit of a regressor that fails leaves the estimator as it was: the
\* mode flag, the index, the grid points, the shape and the responses
C30_FailedFitChangesNothing ==
    [][(est.kind = "regressor" /\ nbLast'.op = "fit" /\ nbLast'.outcome # "ok") =>
         /\ est'.functional = est.functional
         /\ est'.has_estimator_ = est.has_estimator_
         /\ est'.estimator_ = est.estimator_
         /\ est'.has_grid_points = est.has_grid_points
         /\ est'.grid_points = est.grid_points
         /\ est'.shape = est.shape
         /\ est'.has_y = est.has_y
         /\ est'.y = est.y]_vars

\* a predict after a fit with numbers that succeeded and a fit with a
\* functional response that was rejected: it takes the functional path and
\* finds no responses
C30_Witness ==
    /\ est.kind = "regressor" /\ nbHist.anySuccess /\ ~nbHist.lastFitOk
    /\ ~nbHist.y.functional /\ est.functional = "yes" /\ ~est.has_y
    /\ est.estimator_.fitted
    /\ nbLast.op = "predict" /\ nbLast.outcome = "AttributeError"

-----------------------------------------------------------------------------
(* Claims on FDataBasis.shift (SpecShift) *)

\* the last step was a call of shift()
ShiftCalled == shLast.op = "shift"

\* the receiver is not a function of one variable with one coordinate
SeveralDimensions == dim_domain(sh) > 1 \/ dim_codomain(sh) > 1

\* the shifts are a vector with another length than the number of samples
ShiftLengthMismatch ==
    shLast.shifts.kind = "vector" /\ Len(shLast.shifts.v) # n_samples(sh)

\* C23: shift raises ValueError when the domain or the codomain has more than
\* one dimension, whatever the other arguments are, and when a vector of
\* shifts has another length than the number of samples; in both cases
\* nothing is evaluated and nothing is fitted
C23_ShiftArgumentErrors ==
    ShiftCalled /\ (SeveralDimensions \/ ShiftLengthMismatch) =>
        /\ shLast.outcome = "ValueError"
        /\ shLast.steps = <<>>
        /\ shLast.evaluated = <<>>
        /\ shLast.fit = NoFit

C23_Witness ==
    /\ ShiftCalled /\ ~SeveralDimensions
    /\ n_samples(sh) = 2 /\ shLast.shifts.kind = "vector" /\ Len(shLast.shifts.v) = 1
    /\ shLast.outcome = "ValueError"

\* the last call shifted every sample by its own shift with restrict_domain=True
RestrictedShift ==
    /\ ShiftCalled /\ shLast.outcome = "instance"
    /\ shLast.shifts.kind = "vector" /\ shLast.restrict_domain

\* the least and the greatest of the shifts and 0
Least(v) ==
    CHOOSE x \in {v[i] : i \in 1..Len(v)} \cup {R(0)} :
        \A i \in 1..Len(v) : RLeq(x, v[i]) /\ RLeq(x, R(0))

Greatest(v) ==
    CHOOSE x \in {v[i] : i \in 1..Len(v)} \cup {R(0)} :
        \A i \in 1..Len(v) : RLeq(v[i], x) /\ RLeq(R(0), x)

Within(t, d) == RLeq(d[1], t) /\ RLeq(t, d[2])

\* C28: with a vector of shifts and restrict_domain=True over the domain
\* [a, b], the new domain is [a - min(min(shifts), 0), b - max(max(shifts), 0)],
\* the grid is the evaluation grid cut down to the points in it, and sample i
\* is evaluated at t + shifts[i] for every grid point t, a point of [a, b]
C28_RestrictedShiftStaysInside ==
    RestrictedShift =>
        LET d == sh.basis.domain_range
            v == shLast.shifts.v
        IN  /\ shLast.domain = <<RSub(d[1], Least(v)), RSub(d[2], Greatest(v))>>
            /\ shLast.fit.basis.domain_range = shLast.domain
            /\ shLast.fit.sample_points = shLast.grid
            /\ \A j \in 1..Len(shLast.grid) : Within(shLast.grid[j], shLast.domain)
            /\ \A k \in 1..Len(shift_grid(sh, shLast.eval_points)) :
                 Within(shift_grid(sh, shLast.eval_points)[k], shLast.domain) =>
                     \E j \in 1..Len(shLast.grid) :
                         shLast.grid[j] = shift_grid(sh, shLast.eval_points)[k]
            /\ Len(shLast.evaluated) = n_samples(sh)
            /\ \A i \in 1..n_samples(sh) :
                 /\ Len(shLast.evaluated[i]) = Len(shLast.grid)
                 /\ \A j \in 1..Len(shLast.grid) :
                      /\ shLast.evaluated[i][j] = RAdd(shLast.grid[j], v[i])
                      /\ Within(shLast.evaluated[i][j], d)

C28_Witness ==
    /\ RestrictedShift
    /\ sh.basis.n_basis = 1 /\ sh.basis.domain_range = <<R(1), R(3)>>
    /\ shLast.shifts.v = << <<1, 2>>, <<-1, 2>> >>
    /\ ~shLast.eval_points.given
    /\ shLast.domain = << <<3, 2>>, <<5, 2>> >>
    /\ Len(shLast.grid) = 5 /\ shLast.grid[1] = <<8, 5>> /\ shLast.grid[5] = <<12, 5>>
    /\ shLast.evaluated[1][5] = <<29, 10>> /\ shLast.evaluated[2][1] = <<11, 10>>

\* the last two calls shifted the receiver by a number and by the vector that
\* holds this number for every sample, and both returned
ShiftedBothWays ==
    /\ shPrev.op = "shift" /\ shPrev.shifts.kind = "scalar"
    /\ ShiftCalled /\ shLast.shifts.kind = "vector"
    /\ \A i \in 1..Len(shLast.shifts.v) : shLast.shifts.v[i] = shPrev.shifts.v[1]
    /\ shPrev.outcome = "instance" /\ shLast.outcome = "instance"

\* the observations (sample i, point j) of one fit and (sample i, point k) of
\* the other are taken at one point, which lies in both domains
SamePoint(f, j, g, k) ==
    /\ f.sample_points[j] = g.sample_points[k]
    /\ Within(f.sample_points[j], f.basis.domain_range)
    /\ Within(g.sample_points[k], g.basis.domain_range)

\* C29: the shift by a number s and the shift by the vector whose entries are
\* all s give functions that take the same value at every point common to
\* their domains
C29_ShiftFormsAgree ==
    ShiftedBothWays =>
        \A i \in 1..n_samples(sh) :
            \A j \in 1..Len(shPrev.fit.sample_points) :
                \A k \in 1..Len(shLast.fit.sample_points) :
                    SamePoint(shPrev.fit, j, shLast.fit, k) =>
                        shPrev.fit.data_matrix[i][j] = shLast.fit.data_matrix[i][k]

\* the function t on [0, 1] shifted by 1/2: at the point 1/2 the result of the
\* scalar form is worth 0 (the receiver at 0), that of the vector form 1 (the
\* receiver at 1)
C29_Witness ==
    /\ ShiftedBothWays
    /\ sh.basis.domain_range = <<R(0), R(1)>>
    /\ sh.coefficients.data = <<Row(0, 2)>>
    /\ shPrev.shifts.v = << <<1, 2>> >>
    /\ ~shPrev.eval_points.given /\ ~shPrev.restrict_domain
    /\ \E j \in 1..Len(shPrev.fit.sample_points), k \in 1..Len(shLast.fit.sample_points) :
         /\ SamePoint(shPrev.fit, j, shLast.fit, k)
         /\ shPrev.fit.sample_points[j] = <<1, 2>>
         /\ shPrev.fit.data_matrix[1][j] = R(0)
         /\ shLast.fit.data_matrix[1][k] = R(1)

====
